---- MODULE Spec2Model ----
(***************************************************************************)
(* The in-memory region cache read path (components/in_memory_engine/src/  *)
(* read.rs): RegionCacheSnapshot::get_value_cf_opt and RegionCacheIterator *)
(* over one column family of the shared skiplist.                          *)
(*                                                                         *)
(* A skiplist entry is a record [user_key, sequence, v_type, value]; user  *)
(* keys are byte strings (sequences of small naturals) ordered as Rust     *)
(* orders &[u8].  Sequence numbers are 56 bit in the code; the model keeps *)
(* their order but scales the two sentinels MAX_SEQUENCE_NUMBER and        *)
(* u64::MAX down so that they fit the integers of the model checker.       *)
(***************************************************************************)
EXTENDS Integers, Sequences, FiniteSets, TLC

\* ------------------------------------------------------------------ bounds
\* Number of writes (= highest sequence number) a behaviour performs.
MaxSeq == 3
\* Largest value of the last byte of the 8-byte MVCC timestamp suffix.
MaxTs == 1
\* Number of snapshot handles live at the same time.
MaxSnap == 3
\* The keys of the region worker are the one-byte strings <<1>> .. <<MaxBound>>.
MaxBound == 4
\* Highest sequence number of the disk engine.
MaxEngineSeq == 1
\* Config clean_stale_ranges_tick: timer ticks from one stale sweep to the next.
clean_stale_ranges_tick == 2
\* Number of BatchSplit requests that clients send to the peer.
MaxReq == 3

\* Number of admin requests of any command type that clients send to the peer.
MaxAdminReq == 2

\* --------------------------------------------------------------- constants
\* FixedSuffixSliceTransform::new(8): length of the suffix the prefix
\* extractor strips.
SuffixLen == 8
\* pub const MAX_SEQUENCE_NUMBER: u64 = (1 << 56) - 1, scaled.
MAX_SEQUENCE_NUMBER == (2 ^ 16) - 1
\* u64::MAX, scaled; only its order against sequence numbers matters.
U64_MAX == (2 ^ 24) - 1
\* const CLEANUP_MAX_REGION_COUNT: usize = 64.
CLEANUP_MAX_REGION_COUNT == 64

\* ------------------------------------------------------------- user keys
\* Rust's Ord on byte slices: lexicographic, a proper prefix sorts first.
BytesLess(a, b) ==
    LET n == IF Len(a) < Len(b) THEN Len(a) ELSE Len(b)
        diff == {i \in 1..n : a[i] # b[i]}
    IN  IF diff = {} THEN Len(a) < Len(b)
        ELSE LET m == CHOOSE i \in diff : \A j \in diff : i <= j
             IN  a[m] < b[m]

BytesLeq(a, b) == a = b \/ BytesLess(a, b)

\* The 8-byte timestamp suffix whose last byte is t.
TsSuffix(t) == [i \in 1..SuffixLen |-> IF i = SuffixLen THEN t ELSE 0]

\* A data key: one key byte p followed by the timestamp suffix.
DataKey(p, t) == <<p>> \o TsSuffix(t)

\* First bytes of the keys of the region and of its right neighbour.
KeyBytes == {1, 2}

\* The user keys written to the skiplist.
UserKeys == {DataKey(p, t) : p \in KeyBytes, t \in 0..MaxTs}

\* The largest user key: the end key of the region, owned by the neighbour.
LastKey == DataKey(2, MaxTs)

\* The cached region [start, end) of the snapshot.
RegionStart == <<1>>
RegionEnd == LastKey

\* CacheRegion::contains_key
contains_key(start, end, key) == BytesLeq(start, key) /\ BytesLess(key, end)

\* FixedSuffixSliceTransform::transform: the key without its last 8 bytes.
transform(key) == SubSeq(key, 1, Len(key) - SuffixLen)

\* ---------------------------------------------------------- internal keys
Value == "Value"
Deletion == "Deletion"

\* Order of the value-type tag under a tie of user key and sequence: the tag
\* used by seek keys sorts first, the tag used by seek_for_prev keys last.
TagRank(t) == IF t = Value THEN 0 ELSE 1

\* Order of internal keys: user key ascending, then sequence descending,
\* then tag.
KeyLess(a, b) ==
    \/ BytesLess(a.user_key, b.user_key)
    \/ /\ a.user_key = b.user_key
       /\ \/ a.sequence > b.sequence
          \/ a.sequence = b.sequence /\ TagRank(a.v_type) < TagRank(b.v_type)

KeyLeq(a, b) == ~KeyLess(b, a)

encode_key(user_key, sequence, v_type) ==
    [user_key |-> user_key, sequence |-> sequence, v_type |-> v_type, value |-> 0]

encode_seek_key(user_key, sequence) == encode_key(user_key, sequence, Value)

encode_seek_for_prev_key(user_key, sequence) == encode_key(user_key, sequence, Deletion)

\* ----------------------------------------------------- skiplist iterator
\* Position of an iterator that is not valid.
NoEntry == [user_key |-> <<>>, sequence |-> 0 - 1, v_type |-> "None", value |-> 0 - 1]

First(S) == IF S = {} THEN NoEntry ELSE CHOOSE e \in S : \A x \in S : KeyLeq(e, x)

Last(S) == IF S = {} THEN NoEntry ELSE CHOOSE e \in S : \A x \in S : KeyLeq(x, e)

\* OwnedIter::seek: the first entry >= key.
SlSeek(s, key) == First({e \in s : KeyLeq(key, e)})

\* OwnedIter::seek_for_prev: the last entry <= key.
SlSeekForPrev(s, key) == Last({e \in s : KeyLeq(e, key)})

\* OwnedIter::next: the successor of the current entry.
SlNext(s, cur) == IF cur = NoEntry THEN NoEntry ELSE First({e \in s : KeyLess(cur, e)})

\* OwnedIter::prev: the predecessor of the current entry.
SlPrev(s, cur) == IF cur = NoEntry THEN NoEntry ELSE Last({e \in s : KeyLess(e, cur)})

\* ------------------------------------------------------------ the iterator
Uninit == "Uninit"
Forward == "Forward"
Backward == "Backward"

NoValue == 0 - 1
NoPrefix == [some |-> FALSE, bytes |-> <<>>]
SomePrefix(b) == [some |-> TRUE, bytes |-> b]

\* is_visible without the comparison with the snapshot's sequence number.
is_visible_any(it, seq) == TRUE

\* RegionCacheIterator::is_visible
is_visible(it, seq) == seq <= it.sequence_number

Invalidate(it) == [it EXCEPT !.valid = FALSE]

\* The prefix check left out of the loops.
PrefixMismatch_never(it, user_key) == FALSE

PrefixMismatch(it, user_key) ==
    it.prefix.some /\ it.prefix.bytes # transform(user_key)

RECURSIVE find_next_visible_key(_, _, _)
find_next_visible_key(it, s, skip_saved_key) ==
    IF it.iter = NoEntry THEN Invalidate(it)
    ELSE LET e == it.iter
             nxt == SlNext(s, e)
         IN  IF ~BytesLess(e.user_key, it.upper_bound) THEN Invalidate(it)
             ELSE IF PrefixMismatch(it, e.user_key) THEN Invalidate(it)
             ELSE IF is_visible(it, e.sequence)
                  THEN IF skip_saved_key /\ e.user_key = it.saved_user_key
                       THEN find_next_visible_key([it EXCEPT !.iter = nxt], s, skip_saved_key)
                       ELSE IF e.v_type = Deletion
                            THEN find_next_visible_key(
                                     [it EXCEPT !.saved_user_key = e.user_key, !.iter = nxt],
                                     s, TRUE)
                            ELSE [it EXCEPT !.saved_user_key = e.user_key, !.valid = TRUE]
                  ELSE find_next_visible_key(
                           [it EXCEPT !.iter = nxt], s,
                           IF skip_saved_key /\ BytesLess(it.saved_user_key, e.user_key)
                           THEN FALSE ELSE skip_saved_key)

seek_internal(it, s, key) ==
    LET it1 == [it EXCEPT !.iter = SlSeek(s, key)]
    IN  IF it1.iter # NoEntry THEN find_next_visible_key(it1, s, FALSE)
        ELSE Invalidate(it1)

\* The loop of find_value_for_current_key; last is last_key_entry_type.
RECURSIVE find_value_loop(_, _, _)
find_value_loop(it, s, last) ==
    IF it.iter = NoEntry THEN [it EXCEPT !.valid = (last = Value)]
    ELSE LET e == it.iter
         IN  IF ~is_visible(it, e.sequence) \/ it.saved_user_key # e.user_key
             THEN [it EXCEPT !.valid = (last = Value)]
             ELSE find_value_loop(
                      [it EXCEPT !.saved_value = IF e.v_type = Value THEN e.value ELSE NoValue,
                                 !.iter = SlPrev(s, e)],
                      s, e.v_type)

\* find_value_for_current_key with last_key_entry_type starting as Value.
find_value_for_current_key_from_value(it, s) == find_value_loop(it, s, Value)

\* The iterator after find_value_for_current_key; the function's result is
\* iter.valid() of the iterator returned here.
find_value_for_current_key(it, s) == find_value_loop(it, s, Deletion)

RECURSIVE find_user_key_before_saved(_, _)
find_user_key_before_saved(it, s) ==
    IF it.iter = NoEntry THEN it
    ELSE IF BytesLess(it.iter.user_key, it.saved_user_key) THEN it
    ELSE find_user_key_before_saved([it EXCEPT !.iter = SlPrev(s, it.iter)], s)

RECURSIVE prev_internal(_, _)
prev_internal(it, s) ==
    IF it.iter = NoEntry THEN Invalidate(it)
    ELSE LET user_key == it.iter.user_key
             it1 == [it EXCEPT !.saved_user_key = user_key]
         IN  IF BytesLess(user_key, it.lower_bound) THEN Invalidate(it1)
             ELSE IF PrefixMismatch(it, user_key) THEN Invalidate(it1)
             ELSE LET it2 == find_value_for_current_key(it1, s)
                  IN  IF it2.iter = NoEntry THEN it2
                      ELSE LET it3 == find_user_key_before_saved(it2, s)
                           IN  IF it3.valid THEN it3 ELSE prev_internal(it3, s)

seek_for_prev_internal(it, s, key) ==
    prev_internal([it EXCEPT !.iter = SlSeekForPrev(s, key)], s)

reverse_to_backward(it, s) ==
    find_user_key_before_saved([it EXCEPT !.direction = Backward], s)

RECURSIVE reverse_forward_loop(_, _)
reverse_forward_loop(it, s) ==
    IF it.iter = NoEntry THEN it
    ELSE IF ~BytesLess(it.iter.user_key, it.saved_user_key) THEN it
    ELSE reverse_forward_loop([it EXCEPT !.iter = SlNext(s, it.iter)], s)

reverse_to_forward(it, s) ==
    LET it1 == IF it.prefix_extractor \/ it.iter = NoEntry
               THEN [it EXCEPT !.iter =
                         SlSeek(s, encode_seek_key(it.saved_user_key, MAX_SEQUENCE_NUMBER))]
               ELSE it
    IN  reverse_forward_loop([it1 EXCEPT !.direction = Forward], s)

\* Iterator::key and Iterator::value (both assert valid).
key(it) == it.saved_user_key

\* value() reading the skiplist iterator in both directions.
value_from_iter(it) == it.iter.value

value(it) == IF it.direction = Backward THEN it.saved_value ELSE it.iter.value

\* next() calling find_next_visible_key(false): the versions of the key the
\* iterator stands on are not skipped.
next_without_skip(it, s) ==
    LET it1 == IF it.direction = Backward THEN reverse_to_forward(it, s) ELSE it
        it2 == [it1 EXCEPT !.iter = SlNext(s, it1.iter)]
        it3 == [it2 EXCEPT !.valid = (it2.iter # NoEntry)]
    IN  IF it3.valid THEN find_next_visible_key(it3, s, FALSE) ELSE it3

next(it, s) ==
    LET it1 == IF it.direction = Backward THEN reverse_to_forward(it, s) ELSE it
        it2 == [it1 EXCEPT !.iter = SlNext(s, it1.iter)]
        it3 == [it2 EXCEPT !.valid = (it2.iter # NoEntry)]
    IN  IF it3.valid THEN find_next_visible_key(it3, s, TRUE) ELSE it3

prev(it, s) ==
    LET it1 == IF it.direction = Forward THEN reverse_to_backward(it, s) ELSE it
    IN  prev_internal(it1, s)

SetPrefix(it, k) ==
    IF it.prefix_extractor THEN [it EXCEPT !.prefix = SomePrefix(transform(k))] ELSE it

\* seek() without the clamp of the key to the lower bound.
seek_unclamped(it, s, k) ==
    LET it1 == SetPrefix([it EXCEPT !.direction = Forward], k)
    IN  seek_internal(it1, s, encode_seek_key(k, it.sequence_number))

seek(it, s, k) ==
    LET it1 == SetPrefix([it EXCEPT !.direction = Forward], k)
        seek_key == IF BytesLess(k, it.lower_bound) THEN it.lower_bound ELSE k
    IN  seek_internal(it1, s, encode_seek_key(seek_key, it.sequence_number))

seek_for_prev(it, s, k) ==
    LET it1 == SetPrefix([it EXCEPT !.direction = Backward], k)
        seek_key == IF BytesLess(it.upper_bound, k)
                    THEN encode_seek_for_prev_key(it.upper_bound, U64_MAX)
                    ELSE encode_seek_for_prev_key(k, 0)
    IN  seek_for_prev_internal(it1, s, seek_key)

seek_to_first(it, s) ==
    seek_internal([it EXCEPT !.direction = Forward], s,
                  encode_seek_key(it.lower_bound, it.sequence_number))

seek_to_last(it, s) ==
    seek_for_prev_internal([it EXCEPT !.direction = Backward], s,
                           encode_seek_for_prev_key(it.upper_bound, U64_MAX))

\* get_value_cf_opt without the comparison of the user key found with the key
\* asked for.
get_value_cf_opt_any_key(s, snap_seq, k) ==
    LET e == SlSeek(s, encode_seek_key(k, snap_seq))
    IN  IF e = NoEntry THEN NoValue
        ELSE IF e.v_type = Value THEN e.value
        ELSE NoValue

\* RegionCacheSnapshot::get_value_cf_opt for a key inside the region: the
\* value read, or NoValue for Ok(None).
get_value_cf_opt(s, snap_seq, k) ==
    LET e == SlSeek(s, encode_seek_key(k, snap_seq))
    IN  IF e = NoEntry THEN NoValue
        ELSE IF e.v_type = Value /\ e.user_key = k THEN e.value
        ELSE NoValue

\* RegionCacheSnapshot::iterator_opt: the iterator it returns with Ok.
new_iterator(snap_seq, lower, upper, prefix_same_as_start) ==
    [valid |-> FALSE, prefix |-> NoPrefix, lower_bound |-> lower, upper_bound |-> upper,
     iter |-> NoEntry, sequence_number |-> snap_seq, saved_user_key |-> <<>>,
     saved_value |-> NoValue, direction |-> Uninit,
     prefix_extractor |-> prefix_same_as_start]

\* --------------------------------------------------------- cache regions
\* CacheRegion::new(id, epoch_version, start, end).
CacheRegion(id, epoch_version, start, end) ==
    [id |-> id, epoch_version |-> epoch_version, start |-> start, end |-> end]

\* The region the engine is created with (new_region(1, start, end)).
Parent == CacheRegion(1, 0, RegionStart, RegionEnd)

\* The key the region is split at.
SplitKey == <<2>>

\* new_regions of RegionEvent::Split, ascending.
Children ==
    <<CacheRegion(1, 1, RegionStart, SplitKey), CacheRegion(2, 1, SplitKey, RegionEnd)>>

RegionIds == {1, 2}

\* An empty SnapshotList (BTreeMap<u64, u64>: timestamp to count).
EmptyList == [t \in {} |-> 0]

NoMeta == [state |-> "None"]

Cached == "Cached"
PendingEvict == "PendingEvict"
Evicting == "Evicting"

\* RegionMeta of a region that has just become Cached.
NewMeta(region, safe_point) ==
    [state |-> Cached, region |-> region, safe_point |-> safe_point,
     region_snapshot_list |-> EmptyList]

\* The region manager after engine.new_region(region).
InitRegions == [i \in RegionIds |-> IF i = Parent.id THEN NewMeta(Parent, 0) ELSE NoMeta]

\* The disk engine before any write: its latest sequence number and the
\* sequence numbers of its live snapshots.
InitEngine == [latest_sequence_number |-> 0, snapshots |-> {}]

\* ------------------------------------------------------------------ state
VARIABLES
    sl,         \* the skiplist of one column family: a set of entries
    latest,     \* the latest sequence number assigned to a write
    snapshot,   \* the RegionCacheSnapshot: [taken, sequence_number]
    it_live,    \* TRUE once iterator_opt has returned the iterator
    it,         \* the RegionCacheIterator
    last,       \* the last read operation, its argument and what preceded it
    frozen,     \* the skiplist as it was when the iterator was created
    shadow,     \* the same iterator, driven by the same calls over frozen
    reply,      \* the result of the last request that can fail
    regions,    \* region manager: region id -> RegionMeta, NoMeta when absent
    historical, \* historical_regions: replaced regions whose snapshots are live
    handles,    \* the live RegionCacheSnapshot handles and how many of each
    tasks,      \* the queue of the background worker
    shutdown,   \* thread_group::is_shutdown
    panicked,   \* TRUE once an assertion of the code has failed
    pending_delete_ranges,  \* Runner.pending_delete_ranges: start key -> StalePeerInfo
    clean_stale_tick,       \* Runner.clean_stale_tick
    kv_engine,              \* Runner.engine: the disk engine of the region worker
    use_delete_range,       \* Runner.use_delete_range
    pending_applies,        \* Runner.pending_applies: the Apply tasks not yet handled
    region_local_state,     \* the persisted PeerState of each region (CF_RAFT)
    tablet_being_flushed,   \* Peer.tablet_being_flushed
    mailbox,                \* the PeerMsg::AdminCommand messages the peer has not handled
    flush_tasks,            \* the TabletTask::Flush tasks scheduled and not yet run
    flush_finished,         \* the requests whose on_flush_finish callback has run
    flush_memtable_msgs,    \* the MsgFlushMemtable messages sent: <<request, to_peer>>
    proposed,               \* the requests passed to propose_split, in order
    router_shutdown,        \* ctx.router.is_shutdown()
    next_req                \* the next BatchSplit request that a client sends

\* The skiplist, its snapshot and the iterator over it.
iter_vars == <<sl, latest, snapshot, it_live, it, frozen, shadow>>

\* The state of the region manager and of the background worker.
mgr_vars == <<regions, historical, handles, tasks, shutdown>>

\* The state of the region worker.
worker_vars ==
    <<pending_delete_ranges, clean_stale_tick, kv_engine, use_delete_range, pending_applies,
      region_local_state>>

\* The state of the peer's admin-command gateway and of what it talks to.
admin_vars ==
    <<tablet_being_flushed, mailbox, flush_tasks, flush_finished, flush_memtable_msgs,
      proposed, router_shutdown, next_req>>

vars == <<iter_vars, last, reply, mgr_vars, panicked, worker_vars, admin_vars>>

\* The peer after its creation: no flush is under way, nothing was received,
\* scheduled, sent or proposed, and the router runs.
InitAdmin ==
    /\ tablet_being_flushed = FALSE
    /\ mailbox = <<>>
    /\ flush_tasks = {}
    /\ flush_finished = {}
    /\ flush_memtable_msgs = {}
    /\ proposed = <<>>
    /\ router_shutdown = FALSE
    /\ next_req = 1

\* Keys a caller seeks.
SeekKeys == UserKeys

\* The options a caller gives to iterator_opt (bounds inside the region and
\* prefix_same_as_start): the region's own bounds with and without prefix
\* mode, and bounds that are user keys stored in the skiplist.
IterOpts ==
    {<<RegionStart, RegionEnd, FALSE>>, <<RegionStart, RegionEnd, TRUE>>,
     <<DataKey(1, MaxTs), DataKey(2, 0), FALSE>>}

\* last.arg is the key given to a get or seek; pre_key and pre_value are
\* key() and value() before a next or prev.
NoOp == [op |-> "none", arg |-> <<>>, pre_key |-> <<>>, pre_value |-> NoValue, res |-> NoValue]

Op(name, arg) == [NoOp EXCEPT !.op = name, !.arg = arg]

Step(name) ==
    [NoOp EXCEPT !.op = name, !.pre_key = key(it), !.pre_value = value(it)]

\* The state after construction but for the pending-delete map of the region
\* worker.
InitRest ==
    /\ sl = {}
    /\ latest = 0
    /\ snapshot = [taken |-> FALSE, sequence_number |-> 0]
    /\ it_live = FALSE
    /\ it = new_iterator(0, <<>>, <<>>, FALSE)
    /\ last = NoOp
    /\ frozen = {}
    /\ shadow = new_iterator(0, <<>>, <<>>, FALSE)
    /\ reply = "none"
    /\ regions = InitRegions
    /\ historical = {}
    /\ handles = EmptyList
    /\ tasks = <<>>
    /\ shutdown = FALSE
    /\ panicked = FALSE
    /\ clean_stale_tick = 0
    /\ kv_engine = InitEngine
    /\ pending_applies = <<>>
    /\ region_local_state = [i \in {1, 2} |-> "Normal"]
    /\ InitAdmin

InitCore == InitRest /\ pending_delete_ranges = EmptyList

\* The state after construction; the worker is configured without
\* use_delete_range.
Init == InitCore /\ use_delete_range = FALSE

\* The entry a write batch inserts for a put under sequence number seq.
PutEntry(k, seq) == [user_key |-> k, sequence |-> seq, v_type |-> Value, value |-> seq]

\* The entry a write batch inserts for a delete under sequence number seq.
DeleteEntry(k, seq) == [user_key |-> k, sequence |-> seq, v_type |-> Deletion, value |-> 0]

\* A write under the next sequence number.
Write(e) ==
    /\ latest < MaxSeq
    /\ latest' = latest + 1
    /\ sl' = sl \cup {e}
    /\ UNCHANGED <<snapshot, it_live, it, last, frozen, shadow, reply, mgr_vars, panicked,
                   worker_vars, admin_vars>>

Put(k) == ~it_live /\ Write(PutEntry(k, latest + 1))

Delete(k) == ~it_live /\ Write(DeleteEntry(k, latest + 1))

\* RegionCacheSnapshot::new at the current sequence number.
Snapshot ==
    /\ ~snapshot.taken
    /\ snapshot' = [taken |-> TRUE, sequence_number |-> latest]
    /\ UNCHANGED <<sl, latest, it_live, it, last, frozen, shadow, reply, mgr_vars, panicked,
                   worker_vars, admin_vars>>

Get(k) ==
    /\ snapshot.taken
    /\ ~it_live
    /\ contains_key(RegionStart, RegionEnd, k)
    /\ last' = [Op("get", k) EXCEPT !.res = get_value_cf_opt(sl, snapshot.sequence_number, k)]
    /\ UNCHANGED <<iter_vars, reply, mgr_vars, panicked, worker_vars, admin_vars>>

IteratorOpt(lower, upper, prefix_same_as_start) ==
    /\ snapshot.taken
    /\ ~it_live
    /\ ~BytesLess(lower, RegionStart)
    /\ ~BytesLess(RegionEnd, upper)
    /\ it_live' = TRUE
    /\ it' = new_iterator(snapshot.sequence_number, lower, upper, prefix_same_as_start)
    /\ last' = NoOp
    /\ UNCHANGED <<sl, latest, snapshot, frozen, shadow, reply, mgr_vars, panicked,
                   worker_vars, admin_vars>>

\* The calls of the Iterator trait on the live iterator.
Seek(k) ==
    /\ it_live
    /\ it.prefix_extractor => Len(k) >= SuffixLen
    /\ it' = seek(it, sl, k)
    /\ last' = Op("seek", k)
    /\ UNCHANGED <<sl, latest, snapshot, it_live, frozen, shadow, reply, mgr_vars, panicked,
                   worker_vars, admin_vars>>

SeekForPrev(k) ==
    /\ it_live
    /\ it.prefix_extractor => Len(k) >= SuffixLen
    /\ it' = seek_for_prev(it, sl, k)
    /\ last' = Op("seek_for_prev", k)
    /\ UNCHANGED <<sl, latest, snapshot, it_live, frozen, shadow, reply, mgr_vars, panicked,
                   worker_vars, admin_vars>>

SeekToFirst ==
    /\ it_live
    /\ ~it.prefix_extractor
    /\ it' = seek_to_first(it, sl)
    /\ last' = Op("seek_to_first", <<>>)
    /\ UNCHANGED <<sl, latest, snapshot, it_live, frozen, shadow, reply, mgr_vars, panicked,
                   worker_vars, admin_vars>>

SeekToLast ==
    /\ it_live
    /\ ~it.prefix_extractor
    /\ it' = seek_to_last(it, sl)
    /\ last' = Op("seek_to_last", <<>>)
    /\ UNCHANGED <<sl, latest, snapshot, it_live, frozen, shadow, reply, mgr_vars, panicked,
                   worker_vars, admin_vars>>

IterNext ==
    /\ it_live
    /\ it.valid
    /\ it' = next(it, sl)
    /\ last' = Step("next")
    /\ UNCHANGED <<sl, latest, snapshot, it_live, frozen, shadow, reply, mgr_vars, panicked,
                   worker_vars, admin_vars>>

IterPrev ==
    /\ it_live
    /\ it.valid
    /\ it' = prev(it, sl)
    /\ last' = Step("prev")
    /\ UNCHANGED <<sl, latest, snapshot, it_live, frozen, shadow, reply, mgr_vars, panicked,
                   worker_vars, admin_vars>>

Next ==
    \/ \E k \in UserKeys : Put(k)
    \/ \E k \in UserKeys : Delete(k)
    \/ Snapshot
    \/ \E k \in UserKeys : Get(k)
    \/ \E o \in IterOpts : IteratorOpt(o[1], o[2], o[3])
    \/ \E k \in SeekKeys : Seek(k)
    \/ \E k \in SeekKeys : SeekForPrev(k)
    \/ SeekToFirst
    \/ SeekToLast
    \/ IterNext
    \/ IterPrev

Spec == Init /\ [][Next]_vars

\* ------------------------------------------------- what a snapshot must read
\* The user keys that have an entry in the skiplist.
KeysIn(s) == {e.user_key : e \in s}

\* The records of k a snapshot at seq may see.
Versions(s, seq, k) == {e \in s : e.user_key = k /\ e.sequence <= seq}

\* The record of k with the highest sequence <= seq, NoEntry if there is none.
Newest(s, seq, k) ==
    LET V == Versions(s, seq, k)
    IN  IF V = {} THEN NoEntry ELSE CHOOSE e \in V : \A x \in V : x.sequence <= e.sequence

Live(s, seq, k) == Newest(s, seq, k).v_type = Value

VisibleValue(s, seq, k) == IF Live(s, seq, k) THEN Newest(s, seq, k).value ELSE NoValue

\* The user keys in [lo, hi) whose newest visible record is a Value.
LiveKeys(s, seq, lo, hi) ==
    {k \in KeysIn(s) : BytesLeq(lo, k) /\ BytesLess(k, hi) /\ Live(s, seq, k)}

MinKey(S) == CHOOSE k \in S : \A x \in S : BytesLeq(k, x)

MaxKey(S) == CHOOSE k \in S : \A x \in S : BytesLeq(x, k)

\* Two iterators expose the same result.
SameResult(a, b) ==
    /\ a.valid = b.valid
    /\ a.valid => key(a) = key(b) /\ value(a) = value(b)

InRange == LiveKeys(sl, it.sequence_number, it.lower_bound, it.upper_bound)

\* C1: get_value_cf_opt(k) returns the value of the newest record of k with
\* sequence <= snap_seq when that record is a Value, and none when it is a
\* Deletion or when k has no such record.
C1_GetReadsNewestVisible ==
    last.op = "get" => last.res = VisibleValue(sl, snapshot.sequence_number, last.arg)

\* A get that returned a value although the key also has an older tombstone
\* and a record newer than the snapshot.
C1_Witness ==
    /\ last.op = "get"
    /\ last.res # NoValue
    /\ \E e \in sl : e.user_key = last.arg /\ e.sequence > snapshot.sequence_number
    /\ \E e \in sl : e.user_key = last.arg /\ e.v_type = Deletion /\ e.sequence < last.res

\* C2: whenever the iterator is valid, key() is a user key whose newest record
\* with sequence <= snap_seq is a Value and value() is the value of that record.
C2_ValidIsVisibleValue ==
    (it_live /\ it.valid) =>
        /\ Live(sl, it.sequence_number, key(it))
        /\ value(it) = VisibleValue(sl, it.sequence_number, key(it))

\* seek_to_first has skipped a key whose newest visible record is a tombstone
\* and stands on a key that also has a record newer than the snapshot.
C2_Witness ==
    /\ it_live
    /\ it.valid
    /\ last.op = "seek_to_first"
    /\ \E e \in sl : e.user_key = key(it) /\ e.sequence > it.sequence_number
    /\ \E k \in KeysIn(sl) :
           /\ Newest(sl, it.sequence_number, k).v_type = Deletion
           /\ BytesLeq(it.lower_bound, k)
           /\ BytesLess(k, key(it))

\* ------------------------------------------------------------------- scans
\* The (key, value) pairs of next() until invalid, from a positioned iterator.
RECURSIVE ScanNext(_, _)
ScanNext(i, s) ==
    IF ~i.valid THEN <<>> ELSE <<<<key(i), value(i)>>>> \o ScanNext(next(i, s), s)

\* The (key, value) pairs of prev() until invalid, from a positioned iterator.
RECURSIVE ScanPrev(_, _)
ScanPrev(i, s) ==
    IF ~i.valid THEN <<>> ELSE <<<<key(i), value(i)>>>> \o ScanPrev(prev(i, s), s)

Reverse(q) == [j \in 1..Len(q) |-> q[Len(q) + 1 - j]]

\* (k, get(k)) over the keys of S for which get returns a value, ascending.
RECURSIVE GetList(_, _, _)
GetList(S, s, seq) ==
    IF S = {} THEN <<>>
    ELSE LET k == MinKey(S)
             v == get_value_cf_opt(s, seq, k)
         IN  (IF v = NoValue THEN <<>> ELSE <<<<k, v>>>>) \o GetList(S \ {k}, s, seq)

ForwardScan == ScanNext(seek_to_first(it, sl), sl)

BackwardScan == ScanPrev(seek_to_last(it, sl), sl)

KeysInBounds ==
    {k \in UserKeys : BytesLeq(it.lower_bound, k) /\ BytesLess(k, it.upper_bound)}

\* C3: with prefix mode off, seek_to_first and next until invalid produce the
\* reverse of what seek_to_last and prev until invalid produce, and both are
\* the list of (k, get(k)) over the keys of [lower, upper) for which get
\* returns a value, in ascending order.
C3_ScanEquivalence ==
    (it_live /\ ~it.prefix_extractor /\ last.op = "none") =>
        /\ ForwardScan = Reverse(BackwardScan)
        /\ ForwardScan = GetList(KeysInBounds, sl, it.sequence_number)

\* A scan of two keys over a skiplist that also holds a tombstoned key inside
\* the bounds and a record at the upper bound.
C3_Witness ==
    /\ it_live
    /\ ~it.prefix_extractor
    /\ last.op = "none"
    /\ Len(ForwardScan) >= 2
    /\ it.upper_bound \in KeysIn(sl)
    /\ \E e \in sl : e.sequence > it.sequence_number

\* ------------------------------------------------------------------- seeks
\* The keys seek(last.arg) may stop at.
SeekCandidates == {u \in InRange : BytesLeq(last.arg, u)}

\* C4: with prefix mode off, after seek(k) the iterator is valid iff some key
\* u with max(k, lower) <= u < upper has a Value as its newest visible record,
\* and then key() is the smallest such u; seek(k) with k < lower gives what
\* seek_to_first() gives, and seek(k) with k >= upper leaves it invalid.
C4_SeekResult ==
    (it_live /\ ~it.prefix_extractor /\ last.op = "seek") =>
        /\ it.valid <=> SeekCandidates # {}
        /\ it.valid => key(it) = MinKey(SeekCandidates)
        /\ BytesLess(last.arg, it.lower_bound) => SameResult(it, seek_to_first(it, sl))
        /\ ~BytesLess(last.arg, it.upper_bound) => ~it.valid

\* seek(k) for a key k below the lower bound that itself holds a visible
\* value: the iterator stands on a key inside the bounds instead.
C4_Witness ==
    /\ it_live
    /\ ~it.prefix_extractor
    /\ last.op = "seek"
    /\ it.valid
    /\ BytesLess(last.arg, it.lower_bound)
    /\ Live(sl, it.sequence_number, last.arg)

\* The keys seek_for_prev(last.arg) may stop at.
SeekForPrevCandidates == {u \in InRange : BytesLeq(u, last.arg)}

\* C5: with prefix mode off, after seek_for_prev(k) the iterator is valid iff
\* some key u with lower <= u <= k and u < upper has a Value as its newest
\* visible record, and then key() is the largest such u; seek_for_prev(k) with
\* k above upper gives what seek_to_last() gives, and with k < lower leaves it
\* invalid.
C5_SeekForPrevResult ==
    (it_live /\ ~it.prefix_extractor /\ last.op = "seek_for_prev") =>
        /\ it.valid <=> SeekForPrevCandidates # {}
        /\ it.valid => key(it) = MaxKey(SeekForPrevCandidates)
        /\ BytesLess(it.upper_bound, last.arg) => SameResult(it, seek_to_last(it, sl))
        /\ BytesLess(last.arg, it.lower_bound) => ~it.valid

\* C5 for every seek key other than the upper bound itself.
C5_ExceptAtUpperBound ==
    last.arg # it.upper_bound => C5_SeekForPrevResult

\* C6: no operation leaves the iterator valid at a key k with k < lower or
\* k >= upper; a record stored at the upper bound is never emitted.
C6_KeyInsideBounds ==
    (it_live /\ it.valid) =>
        /\ BytesLeq(it.lower_bound, key(it))
        /\ BytesLess(key(it), it.upper_bound)

\* C6 for every state not produced by seek_for_prev(upper).
C6_ExceptSeekForPrevUpper ==
    (it_live /\ it.valid) =>
        /\ BytesLeq(it.lower_bound, key(it))
        /\ BytesLeq(key(it), it.upper_bound)
        /\ key(it) = it.upper_bound =>
               last.op = "seek_for_prev" /\ last.arg = it.upper_bound

\* ------------------------------------------------------------ next and prev
\* The keys stored strictly between a and b, whatever their records.
Between(a, b) == {w \in KeysIn(sl) : BytesLess(a, w) /\ BytesLess(w, b)}

\* In prefix mode a step stops at the first stored key of another prefix.
SamePrefix(w) == it.prefix.some => transform(w) = it.prefix.bytes

\* The visible keys above the key that preceded next().
NextTargets == {u \in InRange : BytesLess(last.pre_key, u)}

\* The visible keys below the key that preceded prev().
PrevTargets == {u \in InRange : BytesLess(u, last.pre_key)}

\* Those that no stored key of another prefix separates from the start.
NextReachable ==
    {u \in NextTargets : \A w \in Between(last.pre_key, u) \cup {u} : SamePrefix(w)}

PrevReachable ==
    {u \in PrevTargets : \A w \in Between(u, last.pre_key) \cup {u} : SamePrefix(w)}

\* C7 as stated: next() moves to the smallest visible key above the current
\* key, or invalidates the iterator if there is none below upper; prev() moves
\* to the largest visible key below it, or invalidates the iterator if there
\* is none at or above lower; so the keys of a run are strictly monotone.
C7_StepToAdjacentVisibleKey ==
    it_live =>
        /\ last.op = "next" =>
               /\ it.valid <=> NextTargets # {}
               /\ it.valid => key(it) = MinKey(NextTargets)
               /\ it.valid => BytesLess(last.pre_key, key(it))
        /\ last.op = "prev" =>
               /\ it.valid <=> PrevTargets # {}
               /\ it.valid => key(it) = MaxKey(PrevTargets)
               /\ it.valid => BytesLess(key(it), last.pre_key)

\* C7 amended: as stated with prefix mode off; in prefix mode the step stops
\* (invalid) at the first stored key whose prefix differs from the seek key's.
C7_StepToAdjacentReachableKey ==
    it_live =>
        /\ last.op = "next" =>
               /\ it.valid <=> NextReachable # {}
               /\ it.valid => key(it) = MinKey(NextReachable)
               /\ it.valid => BytesLess(last.pre_key, key(it))
               /\ ~it.prefix_extractor => NextReachable = NextTargets
        /\ last.op = "prev" =>
               /\ it.valid <=> PrevReachable # {}
               /\ it.valid => key(it) = MaxKey(PrevReachable)
               /\ it.valid => BytesLess(key(it), last.pre_key)
               /\ ~it.prefix_extractor => PrevReachable = PrevTargets

\* next() has passed an older version of the key it left and a tombstoned
\* key, with prefix mode off.
C7_Witness ==
    /\ it_live
    /\ ~it.prefix_extractor
    /\ last.op = "next"
    /\ it.valid
    /\ \E w \in Between(last.pre_key, key(it)) :
           Newest(sl, it.sequence_number, w).v_type = Deletion

\* C8: if next() leaves a valid iterator valid, an immediately following
\* prev() returns to the key and value it left, and the same for prev()
\* followed by next().
C8_ReversalReturns ==
    [][/\ (last.op = "next" /\ it.valid /\ last'.op = "prev") =>
              /\ it'.valid
              /\ key(it') = last.pre_key
              /\ value(it') = last.pre_value
       /\ (last.op = "prev" /\ it.valid /\ last'.op = "next") =>
              /\ it'.valid
              /\ key(it') = last.pre_key
              /\ value(it') = last.pre_value]_vars

\* C8 restricted to iterators that did not start from a key at the upper bound.
C8_ReversalReturnsInsideBounds ==
    [][/\ (last.op = "next" /\ it.valid /\ last'.op = "prev") =>
              /\ it'.valid
              /\ key(it') = last.pre_key
              /\ value(it') = last.pre_value
       /\ (last.op = "prev" /\ it.valid /\ last'.op = "next"
               /\ last.pre_key # it.upper_bound) =>
              /\ it'.valid
              /\ key(it') = last.pre_key
              /\ value(it') = last.pre_value]_vars

\* ------------------------------------------------------------- prefix mode
\* The stored keys inside the bounds above, respectively below, the key that
\* preceded the step.
StoredAbove ==
    {w \in KeysIn(sl) : BytesLess(last.pre_key, w) /\ BytesLess(w, it.upper_bound)}

StoredBelow ==
    {w \in KeysIn(sl) : BytesLess(w, last.pre_key) /\ BytesLeq(it.lower_bound, w)}

\* C10: in prefix mode seek(k) and seek_for_prev(k) cache the prefix of k (k
\* without its last 8 bytes), next and prev keep it, every key exposed has that
\* prefix, and a step makes the iterator invalid as soon as the next stored
\* key has another prefix, even if visible keys inside the bounds follow.
C10_PrefixMode ==
    (it_live /\ it.prefix_extractor) =>
        /\ last.op \in {"seek", "seek_for_prev"} =>
               it.prefix = SomePrefix(transform(last.arg))
        /\ it.valid =>
               /\ it.prefix.some
               /\ transform(key(it)) = it.prefix.bytes
               /\ next(it, sl).prefix = it.prefix
               /\ prev(it, sl).prefix = it.prefix
        /\ (last.op = "next" /\ StoredAbove # {} /\ ~SamePrefix(MinKey(StoredAbove))) =>
               ~it.valid
        /\ (last.op = "prev" /\ StoredBelow # {} /\ ~SamePrefix(MaxKey(StoredBelow))) =>
               ~it.valid

\* In prefix mode next() has made the iterator invalid at a key of another
\* prefix although a visible key inside the bounds follows.
C10_Witness ==
    /\ it_live
    /\ it.prefix_extractor
    /\ last.op = "next"
    /\ ~it.valid
    /\ NextTargets # {}

\* ------------------------------------------------- writes during iteration
\* RegionCacheSnapshot::new and iterator_opt on it, remembering the skiplist
\* the iterator was created over: every later write is newer than snap_seq.
\* It is created while a sequence number is left for such a write.
ConcIteratorOpt(lower, upper, prefix_same_as_start) ==
    /\ ~snapshot.taken
    /\ ~it_live
    /\ latest < MaxSeq
    /\ ~BytesLess(lower, RegionStart)
    /\ ~BytesLess(RegionEnd, upper)
    /\ snapshot' = [taken |-> TRUE, sequence_number |-> latest]
    /\ it_live' = TRUE
    /\ it' = new_iterator(latest, lower, upper, prefix_same_as_start)
    /\ shadow' = it'
    /\ frozen' = sl
    /\ last' = NoOp
    /\ UNCHANGED <<sl, latest, reply, mgr_vars, panicked, worker_vars, admin_vars>>

\* Writes between two operations of the live iterator.
ConcPut(k) == it_live /\ Write(PutEntry(k, latest + 1))

ConcDelete(k) == it_live /\ Write(DeleteEntry(k, latest + 1))

\* The calls of the Iterator trait, made on the live iterator and on its
\* shadow; of these calls last keeps the steps only.
ConcSeek(k) ==
    /\ it_live
    /\ it.prefix_extractor => Len(k) >= SuffixLen
    /\ it' = seek(it, sl, k)
    /\ shadow' = seek(shadow, frozen, k)
    /\ last' = NoOp
    /\ UNCHANGED <<sl, latest, snapshot, it_live, frozen, reply, mgr_vars, panicked,
                   worker_vars, admin_vars>>

ConcSeekForPrev(k) ==
    /\ it_live
    /\ it.prefix_extractor => Len(k) >= SuffixLen
    /\ it' = seek_for_prev(it, sl, k)
    /\ shadow' = seek_for_prev(shadow, frozen, k)
    /\ last' = NoOp
    /\ UNCHANGED <<sl, latest, snapshot, it_live, frozen, reply, mgr_vars, panicked,
                   worker_vars, admin_vars>>

ConcSeekToFirst ==
    /\ it_live
    /\ ~it.prefix_extractor
    /\ it' = seek_to_first(it, sl)
    /\ shadow' = seek_to_first(shadow, frozen)
    /\ last' = NoOp
    /\ UNCHANGED <<sl, latest, snapshot, it_live, frozen, reply, mgr_vars, panicked,
                   worker_vars, admin_vars>>

ConcSeekToLast ==
    /\ it_live
    /\ ~it.prefix_extractor
    /\ it' = seek_to_last(it, sl)
    /\ shadow' = seek_to_last(shadow, frozen)
    /\ last' = NoOp
    /\ UNCHANGED <<sl, latest, snapshot, it_live, frozen, reply, mgr_vars, panicked,
                   worker_vars, admin_vars>>

\* A step is taken while both iterators are valid: the caller cannot step an
\* iterator that is not.
ConcNext ==
    /\ it_live
    /\ it.valid
    /\ shadow.valid
    /\ it' = next(it, sl)
    /\ shadow' = next(shadow, frozen)
    /\ last' = Step("next")
    /\ UNCHANGED <<sl, latest, snapshot, it_live, frozen, reply, mgr_vars, panicked,
                   worker_vars, admin_vars>>

ConcPrev ==
    /\ it_live
    /\ it.valid
    /\ shadow.valid
    /\ it' = prev(it, sl)
    /\ shadow' = prev(shadow, frozen)
    /\ last' = Step("prev")
    /\ UNCHANGED <<sl, latest, snapshot, it_live, frozen, reply, mgr_vars, panicked,
                   worker_vars, admin_vars>>

NextConc ==
    \/ \E k \in UserKeys : Put(k)
    \/ \E k \in UserKeys : Delete(k)
    \/ \E o \in IterOpts : ConcIteratorOpt(o[1], o[2], o[3])
    \/ \E k \in UserKeys : ConcPut(k)
    \/ \E k \in UserKeys : ConcDelete(k)
    \/ \E k \in SeekKeys : ConcSeek(k)
    \/ \E k \in SeekKeys : ConcSeekForPrev(k)
    \/ ConcSeekToFirst
    \/ ConcSeekToLast
    \/ ConcNext
    \/ ConcPrev

SpecConc == Init /\ [][NextConc]_vars

\* C9: records inserted with sequence > snap_seq between two operations of an
\* iterator never change what it returns: after every operation it exposes
\* what the same calls expose over the skiplist without those inserts.
C9_InsertsInvisible ==
    it_live => SameResult(it, shadow)

\* A step has passed a key that was inserted after the iterator was created.
C9_Witness ==
    /\ it_live
    /\ it.valid
    /\ last.op \in {"next", "prev"}
    /\ \E e \in sl \ frozen :
           \/ BytesLess(last.pre_key, e.user_key) /\ BytesLess(e.user_key, key(it))
           \/ BytesLess(key(it), e.user_key) /\ BytesLess(e.user_key, last.pre_key)

\* ------------------------------------------------ iterator_opt and its errors
\* IterOptions::build_bounds: a bound that is set, or none.
NoBound == [some |-> FALSE, bytes |-> <<>>]
SomeBound(b) == [some |-> TRUE, bytes |-> b]

\* Keys below the region's start and above its end.
BelowRegion == <<0>>
AboveRegion == <<3>>

\* The bounds a caller may give: none, outside the region, at its ends, inside.
OptBounds ==
    {NoBound} \cup
    {SomeBound(b) : b \in {BelowRegion, RegionStart, DataKey(1, MaxTs), DataKey(2, 0),
                           RegionEnd, AboveRegion}}

\* iterator_opt checking the lower bound only against the region.
iterator_opt_lower_only(snap_seq, lower_bound, upper_bound, prefix_same_as_start) ==
    IF ~lower_bound.some \/ ~upper_bound.some
    THEN [err |-> "BoundaryNotSet", iter |-> NoEntry]
    ELSE IF BytesLess(lower_bound.bytes, RegionStart)
         THEN [err |-> "Other", iter |-> NoEntry]
         ELSE [err |-> "Ok",
               iter |-> new_iterator(snap_seq, lower_bound.bytes, upper_bound.bytes,
                                     prefix_same_as_start)]

\* RegionCacheSnapshot::iterator_opt: Err(BoundaryNotSet), Err(Other) or the
\* iterator.
iterator_opt(snap_seq, lower_bound, upper_bound, prefix_same_as_start) ==
    IF ~lower_bound.some \/ ~upper_bound.some
    THEN [err |-> "BoundaryNotSet", iter |-> NoEntry]
    ELSE IF BytesLess(lower_bound.bytes, RegionStart)
             \/ BytesLess(RegionEnd, upper_bound.bytes)
         THEN [err |-> "Other", iter |-> NoEntry]
         ELSE [err |-> "Ok",
               iter |-> new_iterator(snap_seq, lower_bound.bytes, upper_bound.bytes,
                                     prefix_same_as_start)]

\* A call of iterator_opt on the snapshot with any bounds; an error leaves the
\* caller with the iterator it had.
TryIteratorOpt(lower_bound, upper_bound, prefix_same_as_start) ==
    LET r == iterator_opt(snapshot.sequence_number, lower_bound, upper_bound,
                          prefix_same_as_start)
    IN  /\ snapshot.taken
        /\ reply' = r.err
        /\ last' = Op("iterator_opt", <<lower_bound, upper_bound, prefix_same_as_start>>)
        /\ it_live' = (it_live \/ r.err = "Ok")
        /\ it' = IF r.err = "Ok" THEN r.iter ELSE it
        /\ UNCHANGED <<sl, latest, snapshot, frozen, shadow, mgr_vars, panicked, worker_vars,
                       admin_vars>>

NextOpt ==
    \/ Snapshot
    \/ \E lo \in OptBounds, hi \in OptBounds, p \in BOOLEAN : TryIteratorOpt(lo, hi, p)
    \/ SeekToFirst

SpecOpt == Init /\ [][NextOpt]_vars

\* Both bounds are set and lie inside the region.
BoundsInsideRegion(lower_bound, upper_bound) ==
    /\ lower_bound.some
    /\ upper_bound.some
    /\ BytesLeq(RegionStart, lower_bound.bytes)
    /\ BytesLeq(upper_bound.bytes, RegionEnd)

\* C11: iterator_opt returns an iterator iff both bounds are set and
\* region.start <= lower and upper <= region.end; a missing bound gives
\* BoundaryNotSet, a bound outside the region gives an Other error, and in both
\* error cases no iterator is created; a new iterator is invalid with direction
\* Uninit.
C11_IteratorOptResult ==
    [][last'.op = "iterator_opt" =>
           LET lo == last'.arg[1]
               hi == last'.arg[2]
           IN  /\ reply' = "Ok" <=> BoundsInsideRegion(lo, hi)
               /\ (~lo.some \/ ~hi.some) => reply' = "BoundaryNotSet"
               /\ (lo.some /\ hi.some /\ ~BoundsInsideRegion(lo, hi)) => reply' = "Other"
               /\ reply' # "Ok" => it' = it /\ it_live' = it_live
               /\ reply' = "Ok" =>
                      /\ it_live'
                      /\ ~it'.valid
                      /\ it'.direction = Uninit
                      /\ it'.lower_bound = lo.bytes
                      /\ it'.upper_bound = hi.bytes]_vars

\* iterator_opt has failed because the upper bound lies above the region's
\* end, and the caller still holds the iterator it had positioned before.
C11_Witness ==
    /\ last.op = "iterator_opt"
    /\ reply = "Other"
    /\ BytesLeq(RegionStart, last.arg[1].bytes)
    /\ BytesLess(RegionEnd, last.arg[2].bytes)
    /\ it_live
    /\ it.direction = Forward

\* ---------------------------------------------------------- region manager
\* Timestamps a reader asks a snapshot at, and safe points.
ReadTs == {1, 2}

\* SnapshotList::new_snapshot.
new_snapshot(list, ts) ==
    [t \in DOMAIN list \cup {ts} |->
        IF t \in DOMAIN list THEN (IF t = ts THEN list[t] + 1 ELSE list[t]) ELSE 1]

\* SnapshotList::remove_snapshot: the entry goes when its count reaches 0.
remove_snapshot(list, ts) ==
    IF list[ts] = 1 THEN [t \in DOMAIN list \ {ts} |-> list[t]]
    ELSE [list EXCEPT ![ts] = @ - 1]

overlaps(a, b) == BytesLess(a.start, b.end) /\ BytesLess(b.start, a.end)

\* The outcomes of region_snapshot(id, epoch, read_ts): Ok when the region is
\* Cached, its epoch is the one asked for and read_ts is above its safe point;
\* else one of the errors whose condition holds.
region_snapshot(rs, id, epoch, read_ts) ==
    LET meta == rs[id]
        not_cached == IF meta = NoMeta THEN TRUE ELSE meta.state # Cached
        epoch_changed == IF meta = NoMeta THEN FALSE ELSE meta.region.epoch_version # epoch
        too_old == IF meta = NoMeta THEN FALSE ELSE read_ts <= meta.safe_point
        errors == (IF not_cached THEN {"NotCached"} ELSE {})
                  \cup (IF epoch_changed THEN {"EpochNotMatch"} ELSE {})
                  \cup (IF ~not_cached /\ ~epoch_changed /\ too_old THEN {"TooOldRead"} ELSE {})
    IN  IF errors = {}
        THEN {[err |-> "Ok",
               regions |-> [rs EXCEPT ![id].region_snapshot_list = new_snapshot(@, read_ts)]]}
        ELSE {[err |-> e, regions |-> rs] : e \in errors}

\* A region may be deleted: it is being evicted, no snapshot of its own is
\* live and no replaced region with live snapshots overlaps it.
ready_to_evict(meta, hist) ==
    /\ meta.state = PendingEvict
    /\ meta.region_snapshot_list = EmptyList
    /\ \A h \in hist : ~overlaps(h.region, meta.region)

\* The regions of ids, ascending by id.
RECURSIVE RegionsOf(_, _)
RegionsOf(rs, ids) ==
    IF ids = {} THEN <<>>
    ELSE LET i == CHOOSE x \in ids : \A y \in ids : x <= y
         IN  <<rs[i].region>> \o RegionsOf(rs, ids \ {i})

\* PendingEvict becomes Evicting for the regions of ids.
SetEvicting(rs, ids) ==
    [i \in RegionIds |-> IF i \in ids THEN [rs[i] EXCEPT !.state = Evicting] ELSE rs[i]]

\* remove_region_snapshot(meta): the snapshot leaves the list of its region
\* (of the replaced region when the epoch has changed), and the regions that
\* have become deletable are returned.
remove_region_snapshot(rs, hist, h) ==
    LET meta == rs[h.region.id]
        same == IF meta = NoMeta THEN FALSE
                ELSE meta.region.epoch_version = h.region.epoch_version
    IN  IF same
        THEN LET m1 == [meta EXCEPT !.region_snapshot_list = remove_snapshot(@, h.snapshot_ts)]
                 rs1 == [rs EXCEPT ![h.region.id] = m1]
                 ids == IF ready_to_evict(m1, hist) THEN {h.region.id} ELSE {}
             IN  [regions |-> SetEvicting(rs1, ids), historical |-> hist,
                  removable |-> RegionsOf(rs1, ids)]
        ELSE LET old == CHOOSE x \in hist : x.region = h.region
                 l1 == remove_snapshot(old.region_snapshot_list, h.snapshot_ts)
                 hist1 == IF l1 = EmptyList THEN hist \ {old}
                          ELSE (hist \ {old}) \cup {[old EXCEPT !.region_snapshot_list = l1]}
                 ids == {i \in RegionIds :
                            IF rs[i] = NoMeta THEN FALSE
                            ELSE overlaps(rs[i].region, h.region) /\ ready_to_evict(rs[i], hist1)}
             IN  [regions |-> SetEvicting(rs, ids), historical |-> hist1,
                  removable |-> RegionsOf(rs, ids)]

\* set_safe_point(id, ts): false when the region is absent or its safe point
\* is above ts.
set_safe_point(rs, id, ts) ==
    IF rs[id] = NoMeta THEN [ok |-> FALSE, regions |-> rs]
    ELSE IF rs[id].safe_point > ts THEN [ok |-> FALSE, regions |-> rs]
    ELSE [ok |-> TRUE, regions |-> [rs EXCEPT ![id].safe_point = ts]]

\* ---------------------------------------------------------- snapshot handle
\* RegionCacheSnapshotMeta::new(region, snapshot_ts, sequence_number).
SnapshotMeta(region, snapshot_ts, sequence_number) ==
    [region |-> region, snapshot_ts |-> snapshot_ts, sequence_number |-> sequence_number]

\* Number of live handles.
RECURSIVE Count(_)
Count(b) ==
    IF DOMAIN b = {} THEN 0
    ELSE LET x == CHOOSE y \in DOMAIN b : TRUE
         IN  b[x] + Count([y \in DOMAIN b \ {x} |-> b[y]])

\* RegionCacheSnapshot::new handing out a handle whatever region_snapshot
\* has answered.
new_unchecked(r, region, read_ts, seq_num) ==
    [err |-> r.err, regions |-> r.regions, snap |-> {SnapshotMeta(region, read_ts, seq_num)}]

\* RegionCacheSnapshot::new returning without a handle after region_snapshot
\* has registered the snapshot.
new_without_handle(r, region, read_ts, seq_num) ==
    [err |-> r.err, regions |-> r.regions, snap |-> {}]

\* RegionCacheSnapshot::new, given the answer r of region_snapshot: the error
\* is returned to the caller (the ? operator), else the handle is built.
new(r, region, read_ts, seq_num) ==
    IF r.err # "Ok"
    THEN [err |-> r.err, regions |-> r.regions, snap |-> {}]
    ELSE [err |-> "Ok", regions |-> r.regions,
          snap |-> {SnapshotMeta(region, read_ts, seq_num)}]

\* BackgroundTask::DeleteRegions(regions).
DeleteRegions(rs) == [task |-> "DeleteRegions", regions |-> rs]

\* Drop for RegionCacheSnapshot that does not call remove_region_snapshot.
drop_without_deregister(rs, hist, q, h, sched_ok, is_shutdown) ==
    [regions |-> rs, historical |-> hist, tasks |-> q, panicked |-> FALSE]

\* Drop for RegionCacheSnapshot scheduling a task whatever list it got.
drop_always_schedule(rs, hist, q, h, sched_ok, is_shutdown) ==
    LET r == remove_region_snapshot(rs, hist, h)
    IN  [regions |-> r.regions, historical |-> r.historical,
         tasks |-> IF sched_ok THEN Append(q, DeleteRegions(r.removable)) ELSE q,
         panicked |-> ~sched_ok /\ ~is_shutdown]

\* Drop for RegionCacheSnapshot: sched_ok is whether schedule_task returns
\* Ok, is_shutdown what thread_group::is_shutdown returns.
drop(rs, hist, q, h, sched_ok, is_shutdown) ==
    LET r == remove_region_snapshot(rs, hist, h)
    IN  [regions |-> r.regions, historical |-> r.historical,
         tasks |-> IF r.removable # <<>> /\ sched_ok
                   THEN Append(q, DeleteRegions(r.removable)) ELSE q,
         panicked |-> r.removable # <<>> /\ ~sched_ok /\ ~is_shutdown]

\* The skiplist of the region-manager specification: three writes.
StoredSl ==
    {PutEntry(DataKey(1, 0), 1), PutEntry(DataKey(2, 0), 2), PutEntry(DataKey(1, MaxTs), 3)}

InitMgr ==
    /\ sl = StoredSl
    /\ latest = Cardinality(StoredSl)
    /\ snapshot = [taken |-> FALSE, sequence_number |-> 0]
    /\ it_live = FALSE
    /\ it = new_iterator(0, <<>>, <<>>, FALSE)
    /\ last = NoOp
    /\ frozen = {}
    /\ shadow = new_iterator(0, <<>>, <<>>, FALSE)
    /\ reply = "none"
    /\ regions = InitRegions
    /\ historical = {}
    /\ handles = EmptyList
    /\ tasks = <<>>
    /\ shutdown = FALSE
    /\ panicked = FALSE
    /\ pending_delete_ranges = EmptyList
    /\ clean_stale_tick = 0
    /\ kv_engine = InitEngine
    /\ use_delete_range = FALSE
    /\ pending_applies = <<>>
    /\ region_local_state = [i \in {1, 2} |-> "Normal"]
    /\ InitAdmin

\* The descriptors a reader may hold.
Descriptors == {Parent, Children[1], Children[2]}

\* The handles a reader may hold.
HandleKinds ==
    {SnapshotMeta(region, read_ts, Cardinality(StoredSl)) :
        region \in Descriptors, read_ts \in ReadTs}

\* engine.snapshot(region, read_ts, seq_num).
SnapshotNew(region, read_ts) ==
    /\ ~panicked
    /\ Count(handles) < MaxSnap
    /\ \E r \in region_snapshot(regions, region.id, region.epoch_version, read_ts) :
          LET n == new(r, region, read_ts, latest)
          IN  /\ reply' = n.err
              /\ regions' = n.regions
              /\ handles' = IF n.snap = {} THEN handles
                            ELSE new_snapshot(handles, CHOOSE x \in n.snap : TRUE)
    /\ last' = Op("snapshot", <<region, read_ts>>)
    /\ UNCHANGED <<iter_vars, historical, tasks, shutdown, panicked, worker_vars, admin_vars>>

\* drop(snapshot) of a live handle.
DropSnapshot(h, sched_ok) ==
    /\ ~panicked
    /\ h \in DOMAIN handles
    /\ LET d == drop(regions, historical, tasks, h, sched_ok, shutdown)
       IN  /\ regions' = d.regions
           /\ historical' = d.historical
           /\ tasks' = d.tasks
           /\ panicked' = d.panicked
    /\ handles' = remove_snapshot(handles, h)
    /\ last' = Op("drop", <<h, sched_ok>>)
    /\ UNCHANGED <<iter_vars, reply, shutdown, worker_vars, admin_vars>>

\* region_manager.set_safe_point(id, ts).
SetSafePoint(id, ts) ==
    /\ ~panicked
    /\ LET r == set_safe_point(regions, id, ts)
       IN  /\ regions' = r.regions
           /\ reply' = IF r.ok THEN "true" ELSE "false"
    /\ last' = Op("set_safe_point", <<id, ts>>)
    /\ UNCHANGED <<iter_vars, historical, handles, tasks, shutdown, panicked, worker_vars,
                   admin_vars>>

\* on_region_event(RegionEvent::Split { source: Parent, new_regions: Children }):
\* the children are Cached with the safe point of the parent; the parent is
\* kept among the replaced regions while it has live snapshots.
Split ==
    /\ ~panicked
    /\ regions[Parent.id] # NoMeta
    /\ regions[Parent.id].region = Parent
    /\ regions[Parent.id].state = Cached
    /\ regions' = [i \in RegionIds |-> NewMeta(Children[i], regions[Parent.id].safe_point)]
    /\ historical' =
          IF regions[Parent.id].region_snapshot_list = EmptyList THEN historical
          ELSE historical \cup {[region |-> Parent,
                                 region_snapshot_list |->
                                     regions[Parent.id].region_snapshot_list]}
    /\ last' = Op("split", <<>>)
    /\ UNCHANGED <<iter_vars, reply, handles, tasks, shutdown, panicked, worker_vars, admin_vars>>

\* engine.evict_region(region): the region is PendingEvict, or Evicting and
\* handed to the background worker when nothing holds it.
Evict(id) ==
    /\ ~panicked
    /\ regions[id] # NoMeta
    /\ regions[id].state = Cached
    /\ LET m1 == [regions[id] EXCEPT !.state = PendingEvict]
           rs1 == [regions EXCEPT ![id] = m1]
           ids == IF ready_to_evict(m1, historical) THEN {id} ELSE {}
       IN  /\ regions' = SetEvicting(rs1, ids)
           /\ tasks' = IF ids = {} THEN tasks
                       ELSE Append(tasks, DeleteRegions(RegionsOf(rs1, ids)))
    /\ last' = Op("evict", id)
    /\ UNCHANGED <<iter_vars, reply, historical, handles, shutdown, panicked, worker_vars,
                   admin_vars>>

\* The entries of s outside every region of the list rs.
DeleteRanges(s, rs) ==
    {e \in s : \A i \in 1..Len(rs) : ~contains_key(rs[i].start, rs[i].end, e.user_key)}

\* The background worker runs the DeleteRegions task at the head of its queue:
\* the keys of the regions leave the skiplist, then the regions leave the
\* region manager.
RunDeleteRegions ==
    /\ ~panicked
    /\ tasks # <<>>
    /\ LET rs == Head(tasks).regions
           gone == {rs[i].id : i \in 1..Len(rs)}
       IN  /\ sl' = DeleteRanges(sl, rs)
           /\ regions' = [i \in RegionIds |-> IF i \in gone THEN NoMeta ELSE regions[i]]
    /\ tasks' = Tail(tasks)
    /\ last' = Op("delete_regions", <<>>)
    /\ UNCHANGED <<latest, snapshot, it_live, it, frozen, shadow, reply, historical, handles,
                   shutdown, panicked, worker_vars, admin_vars>>

\* tikv_util::thread_group::mark_shutdown.
MarkShutdown ==
    /\ ~panicked
    /\ ~shutdown
    /\ shutdown' = TRUE
    /\ last' = Op("mark_shutdown", <<>>)
    /\ UNCHANGED <<iter_vars, reply, regions, historical, handles, tasks, panicked,
                   worker_vars, admin_vars>>

NextMgr ==
    \/ \E region \in Descriptors, read_ts \in ReadTs : SnapshotNew(region, read_ts)
    \/ \E h \in HandleKinds, sched_ok \in BOOLEAN : DropSnapshot(h, sched_ok)
    \/ \E id \in RegionIds, ts \in ReadTs : SetSafePoint(id, ts)
    \/ Split
    \/ \E id \in RegionIds : Evict(id)
    \/ RunDeleteRegions
    \/ MarkShutdown

SpecMgr == InitMgr /\ [][NextMgr]_vars

\* ------------------------------------------------------- snapshot counting
\* Number of live handles taken on region at ts.
LiveCount(region, ts) ==
    Count([h \in {x \in DOMAIN handles : x.region = region /\ x.snapshot_ts = ts} |-> handles[h]])

\* The list holds, for every timestamp, the number of live handles of region
\* and no entry for a timestamp without one.
ListMatches(list, region) ==
    /\ DOMAIN list \subseteq ReadTs
    /\ \A ts \in ReadTs :
          IF ts \in DOMAIN list THEN list[ts] > 0 /\ list[ts] = LiveCount(region, ts)
          ELSE LiveCount(region, ts) = 0

\* The snapshot lists the region manager holds, each with its region.
SnapshotLists ==
    {[region |-> regions[i].region, region_snapshot_list |-> regions[i].region_snapshot_list] :
        i \in {j \in RegionIds : regions[j] # NoMeta}}
    \cup historical

ListsMatchHandles ==
    /\ \A x \in SnapshotLists : ListMatches(x.region_snapshot_list, x.region)
    /\ \A h \in DOMAIN handles : \E x \in SnapshotLists : x.region = h.region
    /\ handles = EmptyList => \A x \in SnapshotLists : x.region_snapshot_list = EmptyList

\* C12: for every region and timestamp ts the count stored for ts in the
\* region's snapshot list is the number of live handles of that region with
\* read_ts = ts, the entry is absent when there is none, every list is empty
\* when no handle is live, and a snapshot request that fails changes no list.
C12_CountsAreLiveHandles ==
    /\ []ListsMatchHandles
    /\ [][(last'.op = "snapshot" /\ reply' # "Ok") =>
              /\ regions' = regions
              /\ historical' = historical
              /\ handles' = handles]_vars

\* Two handles at one timestamp are live and a request has just failed.
C12_Witness ==
    /\ \E i \in RegionIds :
          /\ regions[i] # NoMeta
          /\ \E ts \in ReadTs : ts \in DOMAIN regions[i].region_snapshot_list
                                /\ regions[i].region_snapshot_list[ts] = 2
    /\ Count(handles) = 2
    /\ last.op = "snapshot"
    /\ reply = "TooOldRead"

\* ------------------------------------------------------------- safe point
\* The region asked for is Cached under the epoch of the descriptor.
CachedMatching(rs, region) ==
    IF rs[region.id] = NoMeta THEN FALSE
    ELSE rs[region.id].state = Cached /\ rs[region.id].region = region

\* The step registers one more snapshot of region at ts and hands out its
\* handle.
Registers(region, ts) ==
    /\ regions' = [regions EXCEPT ![region.id].region_snapshot_list = new_snapshot(@, ts)]
    /\ handles' = new_snapshot(handles, SnapshotMeta(region, ts, latest))

\* C13 as stated: a snapshot request on a region that is Cached with a
\* matching epoch succeeds and registers the snapshot whenever read_ts >=
\* safe_point, and fails with TooOldRead only when read_ts < safe_point.
C13_SucceedsFromSafePoint ==
    [][(last'.op = "snapshot" /\ CachedMatching(regions, last'.arg[1])) =>
          LET region == last'.arg[1]
              read_ts == last'.arg[2]
              safe_point == regions[region.id].safe_point
          IN  /\ read_ts >= safe_point => reply' = "Ok" /\ Registers(region, read_ts)
              /\ reply' = "TooOldRead" => read_ts < safe_point]_vars

\* C13: a snapshot request on a region that is Cached with a matching epoch
\* succeeds and registers the snapshot exactly when read_ts > safe_point, and
\* fails with TooOldRead, registering nothing, when read_ts <= safe_point.
C13_SucceedsAboveSafePoint ==
    [][(last'.op = "snapshot" /\ CachedMatching(regions, last'.arg[1])) =>
          LET region == last'.arg[1]
              read_ts == last'.arg[2]
              safe_point == regions[region.id].safe_point
          IN  /\ read_ts > safe_point => reply' = "Ok" /\ Registers(region, read_ts)
              /\ read_ts <= safe_point =>
                    /\ reply' = "TooOldRead"
                    /\ regions' = regions
                    /\ handles' = handles]_vars

\* A request above a safe point that has been raised has succeeded.
C13_Witness ==
    /\ last.op = "snapshot"
    /\ reply = "Ok"
    /\ CachedMatching(regions, last.arg[1])
    /\ regions[last.arg[1].id].safe_point = 1
    /\ last.arg[2] = 2
    /\ SnapshotMeta(last.arg[1], 2, latest) \in DOMAIN handles

\* The user keys of a region.
KeysOf(region) == {k \in UserKeys : contains_key(region.start, region.end, k)}

\* Every live handle reads, for every key of its region, what was stored.
HandlesUsable ==
    \A h \in DOMAIN handles : \A k \in KeysOf(h.region) :
        get_value_cf_opt(sl, h.sequence_number, k)
            = VisibleValue(StoredSl, h.sequence_number, k)

\* C14: once set_safe_point(region, t) has returned true, a snapshot request
\* on that region (Cached, same epoch) with read_ts = t fails with TooOldRead
\* and one with read_ts > t succeeds; raising the safe point leaves the
\* snapshots registered before as they were, at t too, and every live handle
\* keeps reading the stored values.
C14_SafePointRefusesEqual ==
    /\ []HandlesUsable
    /\ [][/\ (last'.op = "set_safe_point" /\ reply' = "true") =>
                 /\ regions' = [regions EXCEPT ![last'.arg[1]].safe_point = last'.arg[2]]
                 /\ handles' = handles
                 /\ historical' = historical
          /\ (last'.op = "snapshot" /\ CachedMatching(regions, last'.arg[1])) =>
                 LET region == last'.arg[1]
                     read_ts == last'.arg[2]
                     t == regions[region.id].safe_point
                 IN  t > 0 =>
                        /\ read_ts = t =>
                              reply' = "TooOldRead" /\ handles' = handles /\ regions' = regions
                        /\ read_ts > t => reply' = "Ok" /\ Registers(region, read_ts)]_vars

\* A request at the safe point has been refused while a handle taken at that
\* timestamp before is live and registered.
C14_Witness ==
    /\ last.op = "snapshot"
    /\ reply = "TooOldRead"
    /\ CachedMatching(regions, last.arg[1])
    /\ regions[last.arg[1].id].safe_point = last.arg[2]
    /\ SnapshotMeta(last.arg[1], last.arg[2], latest) \in DOMAIN handles
    /\ last.arg[2] \in DOMAIN regions[last.arg[1].id].region_snapshot_list

\* ---------------------------------------------------------------- eviction
\* Number of handles of hs taken on region or, before a split, on a region
\* that covered it: a region that is being evicted accepts no snapshot, so
\* these were all taken before the eviction.
Holders(hs, region) ==
    Count([h \in {x \in DOMAIN hs : overlaps(x.region, region)} |-> hs[h]])

\* The entries of s whose user key is a key of region.
EntriesOf(s, region) == {e \in s : contains_key(region.start, region.end, e.user_key)}

\* region is in a task of the queue q.
Queued(q, region) ==
    \E j \in 1..Len(q) : \E n \in 1..Len(q[j].regions) : q[j].regions[n] = region

Present == {i \in RegionIds : regions[i] # NoMeta}

\* A region being evicted is PendingEvict exactly while a snapshot taken
\* before the eviction is live; until the worker deletes it its keys are
\* stored.
EvictionWaitsForHolders ==
    \A i \in Present :
        /\ regions[i].state = PendingEvict =>
              /\ Holders(handles, regions[i].region) >= 1
              /\ ~Queued(tasks, regions[i].region)
        /\ regions[i].state = Evicting => Holders(handles, regions[i].region) = 0
        /\ regions[i].state = Cached => ~Queued(tasks, regions[i].region)
        /\ EntriesOf(sl, regions[i].region) = EntriesOf(StoredSl, regions[i].region)

\* C15: a region evicted while k >= 1 snapshots taken before the eviction
\* (on it, or on its parent before the split) are live stays PendingEvict with
\* its keys stored after each of the first k - 1 drops, becomes Evicting and
\* is handed to the background worker with the k-th drop, and is removed with
\* its keys gone when the worker runs the task; snapshots on siblings do not
\* count.
C15_EvictAfterLastHolder ==
    /\ []EvictionWaitsForHolders
    /\ [][/\ last'.op = "drop" =>
                 \A i \in Present : regions[i].state = PendingEvict =>
                     IF Holders(handles', regions[i].region) >= 1
                     THEN /\ regions'[i].state = PendingEvict
                          /\ ~Queued(tasks', regions[i].region)
                     ELSE /\ regions'[i].state = Evicting
                          /\ last'.arg[2] =>
                                Queued(<<tasks'[Len(tasks')]>>, regions[i].region)
          /\ last'.op \in {"snapshot", "set_safe_point", "mark_shutdown"} =>
                 \A i \in Present : regions[i].state = PendingEvict =>
                     regions'[i].state = PendingEvict
          /\ last'.op = "delete_regions" =>
                 \A n \in 1..Len(Head(tasks).regions) :
                     LET region == Head(tasks).regions[n]
                     IN  /\ regions[region.id].state = Evicting
                         /\ regions'[region.id] = NoMeta
                         /\ EntriesOf(sl', region) = {}]_vars

\* The last snapshot of the parent has been dropped: the evicted child is
\* Evicting and queued for deletion although a snapshot taken on its sibling
\* after the eviction is live.
C15_Witness ==
    /\ last.op = "drop"
    /\ last.arg[1].region = Parent
    /\ regions[2] # NoMeta
    /\ regions[2].state = Evicting
    /\ Queued(tasks, Children[2])
    /\ regions[1] # NoMeta
    /\ regions[1].state = Cached
    /\ \E h \in DOMAIN handles : h.region = Children[1]

\* ------------------------------------------------- stale and evicted regions
\* The region has been split: a child is in the region manager.
AfterSplit ==
    \E i \in Present : regions[i].region = Children[i]

\* region is in the region manager under this descriptor and is being evicted.
Evicted(region) ==
    IF regions[region.id] = NoMeta THEN FALSE
    ELSE regions[region.id].region = region
         /\ regions[region.id].state \in {PendingEvict, Evicting}

\* What seek_to_first and next until invalid return over the whole range of
\* region from a snapshot of s at seq.
ScanRegion(s, seq, region) ==
    ScanNext(seek_to_first(new_iterator(seq, region.start, region.end, FALSE), s), s)

\* A request on a Cached region above its safe point succeeds, is registered,
\* and a scan of the region returns the stored keys of its range and no other.
SucceedsAndScansOwnRange(region, read_ts) ==
    (CachedMatching(regions, region) /\ read_ts > regions[region.id].safe_point) =>
        /\ reply' = "Ok"
        /\ Registers(region, read_ts)
        /\ ScanRegion(sl', latest, region) = GetList(KeysOf(region), StoredSl, latest)

\* C16 as stated: after the split a snapshot request that carries the
\* parent's descriptor fails with EpochNotMatch; a request on a region that
\* has been evicted fails with NotCached; requests on regions that are Cached
\* succeed and their scans return exactly the keys of their own range.
C16_ParentEpochNotMatch ==
    [][last'.op = "snapshot" =>
          LET region == last'.arg[1]
              read_ts == last'.arg[2]
          IN  /\ (region = Parent /\ AfterSplit) => reply' = "EpochNotMatch"
              /\ Evicted(region) => reply' = "NotCached"
              /\ SucceedsAndScansOwnRange(region, read_ts)]_vars

\* C16: a snapshot request whose descriptor has an older epoch than the
\* region that holds its id fails with EpochNotMatch while that region is
\* Cached, and with EpochNotMatch or NotCached while it is being evicted; a
\* request on a region that is being evicted, under its own descriptor, or
\* whose id is no longer in the region manager fails with NotCached; a failed
\* request registers nothing; a request on a Cached region above its safe
\* point succeeds and its scan returns exactly the keys of its own range,
\* whatever has happened to its sibling.
C16_StaleOrEvictedRequest ==
    [][last'.op = "snapshot" =>
          LET region == last'.arg[1]
              read_ts == last'.arg[2]
              meta == regions[region.id]
          IN  /\ IF meta = NoMeta THEN reply' = "NotCached"
                 ELSE /\ (meta.state = Cached /\ meta.region # region) =>
                            reply' = "EpochNotMatch"
                      /\ (meta.state # Cached /\ meta.region = region) =>
                            reply' = "NotCached"
                      /\ (meta.state # Cached /\ meta.region # region) =>
                            reply' \in {"EpochNotMatch", "NotCached"}
              /\ reply' # "Ok" => regions' = regions /\ handles' = handles
              /\ SucceedsAndScansOwnRange(region, read_ts)]_vars

\* The sibling has been evicted and deleted; a snapshot of the child that is
\* left has succeeded, and the parent's descriptor is refused.
C16_Witness ==
    /\ last.op = "snapshot"
    /\ last.arg[1] = Children[1]
    /\ reply = "Ok"
    /\ regions[2] = NoMeta
    /\ EntriesOf(sl, Children[2]) = {}
    /\ Len(ScanRegion(sl, latest, Children[1])) = Cardinality(KeysOf(Children[1]))
    /\ \A r \in region_snapshot(regions, Parent.id, Parent.epoch_version, 2) :
          r.err = "EpochNotMatch"

\* -------------------------------------------------------------------- drop
\* Number of snapshots registered in the region manager.
RECURSIVE Registered(_)
Registered(L) ==
    IF L = {} THEN 0
    ELSE LET x == CHOOSE y \in L : TRUE
         IN  Count(x.region_snapshot_list) + Registered(L \ {x})

\* The regions the step has made Evicting.
Turned ==
    {regions[i].region : i \in {j \in Present : /\ regions[j].state = PendingEvict
                                                 /\ regions'[j] # NoMeta
                                                 /\ regions'[j].state = Evicting}}

\* The elements a list carries.
Range(q) == {q[j] : j \in 1..Len(q)}

\* C17: dropping a handle takes its one registration out of the region
\* manager; when that made regions deletable, and only then, one DeleteRegions
\* task carrying exactly those regions is put at the end of the worker's
\* queue; the skiplist is left as it is; schedule_task failing is survived
\* when the process is shutting down and is a failed assertion otherwise.
C17_DropSchedulesOnce ==
    [][last'.op = "drop" =>
          LET h == last'.arg[1]
              sched_ok == last'.arg[2]
          IN  /\ handles' = remove_snapshot(handles, h)
              /\ Registered(SnapshotLists') = Registered(SnapshotLists) - 1
              /\ \A x \in SnapshotLists' : ListMatches(x.region_snapshot_list, x.region)'
              /\ sl' = sl
              /\ IF Turned # {} /\ sched_ok
                 THEN /\ Len(tasks') = Len(tasks) + 1
                      /\ SubSeq(tasks', 1, Len(tasks)) = tasks
                      /\ tasks'[Len(tasks')].task = "DeleteRegions"
                      /\ Range(tasks'[Len(tasks')].regions) = Turned
                      /\ Len(tasks'[Len(tasks')].regions) = Cardinality(Turned)
                 ELSE tasks' = tasks
              /\ panicked' <=> (Turned # {} /\ ~sched_ok /\ ~shutdown)]_vars

\* The drop of the parent's last snapshot has enqueued one task carrying both
\* evicted children, and every key is still stored.
C17_Witness ==
    /\ last.op = "drop"
    /\ last.arg[2]
    /\ Len(tasks) = 1
    /\ Len(tasks[1].regions) = 2
    /\ \A i \in RegionIds : regions[i] # NoMeta /\ regions[i].state = Evicting
    /\ sl = StoredSl
    /\ ~panicked

\* ------------------------------------------------ pending delete ranges
\* Start and end keys of the ranges the region worker is given.
WBounds == {<<n>> : n \in 1..MaxBound}

\* The ranges [start_key, end_key) of regions: start_key < end_key.
WRanges == {r \in WBounds \X WBounds : BytesLess(r[1], r[2])}

\* Region ids of the tasks.
WRegionIds == {1, 2}

\* The (region_id, start_key, end_key, stale_sequence) of the entry at s_key.
EntryOf(ranges, s_key) ==
    <<ranges[s_key].region_id, s_key, ranges[s_key].end_key, ranges[s_key].stale_sequence>>

\* The entries of the map at the keys of S, by ascending key: the order in
\* which a BTreeMap hands them out.
RECURSIVE EntriesAt(_, _)
EntriesAt(ranges, S) ==
    IF S = {} THEN <<>>
    ELSE <<EntryOf(ranges, MinKey(S))>> \o EntriesAt(ranges, S \ {MinKey(S)})

\* find_overlap_ranges without the look at the entry that starts before
\* start_key.
find_overlap_ranges_from_start(ranges, start_key, end_key) ==
    EntriesAt(ranges, {k \in DOMAIN ranges : BytesLeq(start_key, k) /\ BytesLess(k, end_key)})

\* PendingDeleteRanges::find_overlap_ranges: the last entry that starts
\* before start_key if it ends after start_key, then the entries that start in
\* [start_key, end_key), ascending.
find_overlap_ranges(ranges, start_key, end_key) ==
    LET sub_range == {k \in DOMAIN ranges : BytesLess(k, start_key)}
        first == IF sub_range = {} THEN <<>>
                 ELSE LET s_key == MaxKey(sub_range)
                      IN  IF BytesLess(start_key, ranges[s_key].end_key)
                          THEN <<EntryOf(ranges, s_key)>> ELSE <<>>
    IN  first \o EntriesAt(ranges, {k \in DOMAIN ranges :
                                       BytesLeq(start_key, k) /\ BytesLess(k, end_key)})

\* BTreeMap::remove of the keys of S.
RemoveKeys(ranges, S) == [k \in DOMAIN ranges \ S |-> ranges[k]]

\* drain_overlap_ranges that leaves the entries it returns in the map.
drain_overlap_ranges_keeping(ranges, start_key, end_key) ==
    [ranges |-> ranges, drained |-> find_overlap_ranges(ranges, start_key, end_key)]

\* PendingDeleteRanges::drain_overlap_ranges: the entries found, and the map
\* without them.
drain_overlap_ranges(ranges, start_key, end_key) ==
    LET found == find_overlap_ranges(ranges, start_key, end_key)
    IN  [ranges |-> RemoveKeys(ranges, {x[2] : x \in Range(found)}), drained |-> found]

\* PendingDeleteRanges::insert: a panic when an entry overlaps the range.
insert(ranges, region_id, start_key, end_key, stale_sequence) ==
    IF find_overlap_ranges(ranges, start_key, end_key) # <<>>
    THEN [ranges |-> ranges, panicked |-> TRUE]
    ELSE [ranges |->
             [k \in DOMAIN ranges \cup {start_key} |->
                 IF k = start_key
                 THEN [region_id |-> region_id, end_key |-> end_key,
                       stale_sequence |-> stale_sequence]
                 ELSE ranges[k]],
          panicked |-> FALSE]

\* PendingDeleteRanges::stale_ranges: (region_id, start_key, end_key) of the
\* entries with stale_sequence < oldest_sequence, in the order of the map.
stale_ranges(ranges, oldest_sequence) ==
    LET stale == EntriesAt(ranges, {k \in DOMAIN ranges :
                                       ranges[k].stale_sequence < oldest_sequence})
    IN  [j \in DOMAIN stale |-> <<stale[j][1], stale[j][2], stale[j][3]>>]

\* ----------------------------------------------------------- disk engine
\* engine.get_oldest_snapshot_sequence_number().unwrap_or(u64::MAX).
oldest_snapshot_sequence(e) ==
    IF e.snapshots = {} THEN U64_MAX
    ELSE CHOOSE q \in e.snapshots : \A x \in e.snapshots : q <= x

\* ---------------------------------------------------------- region worker
\* The deletions a handler asks of the engine (delete_ranges_cfs and
\* delete_ranges_cf) change neither the sequence numbers nor the snapshots of
\* the engine, which is all this model keeps of it: a handler returns them as
\* the list of its calls. The engine answers a call with Ok or with an error;
\* which call of a handler fails, if any, is an input.

\* F(v), with v computed once.
With(v, F(_)) == CHOOSE y \in {F(x) : x \in {v}} : TRUE

\* engine.cf_names(): the column families of the engine.
CfNames == <<"default", "lock", "write", "raft">>

\* A DeleteStrategy; allow_write_during_ingestion is a field of DeleteByWriter.
Strategy(name, allow_write_during_ingestion) ==
    [name |-> name, allow_write_during_ingestion |-> allow_write_during_ingestion]

\* One delete_ranges_cfs (cf = "all") or delete_ranges_cf call.
Call(strategy, cf, ranges) == [strategy |-> strategy, cf |-> cf, ranges |-> ranges]

\* The deletion steps that can fail: the file-level delete of the overlap
\* cleanup, the file-level delete of a sweep, the delete of one column family,
\* the blob-file delete of a sweep.
Failures == {"none", "overlap_files", "files", "blobs"} \cup Range(CfNames)

\* The (start, end) of the entries of a list, in the order of the list.
RangesOf(entries) == [j \in DOMAIN entries |-> <<entries[j][2], entries[j][3]>>]

\* df_ranges that keeps every drained entry.
df_ranges_unfiltered(overlap_ranges, oldest_sequence) == RangesOf(overlap_ranges)

\* df_ranges of clean_overlap_ranges_roughly: the ranges of the drained
\* entries whose stale_sequence is below oldest_sequence.
df_ranges(overlap_ranges, oldest_sequence) ==
    RangesOf(SelectSeq(overlap_ranges, LAMBDA x : x[4] < oldest_sequence))

\* clean_overlap_ranges_roughly returning the bounds it was given.
clean_overlap_ranges_roughly_unwidened(ranges, e, start_key, end_key, fail) ==
    LET d == drain_overlap_ranges(ranges, start_key, end_key)
    IN  [ranges |-> d.ranges, start_key |-> start_key, end_key |-> end_key,
         calls |-> IF d.drained = <<>> THEN <<>>
                   ELSE <<Call(Strategy("DeleteFiles", FALSE), "all",
                               df_ranges(d.drained, oldest_snapshot_sequence(e)))>>,
         panicked |-> d.drained # <<>> /\ fail = "overlap_files"]

\* Runner::clean_overlap_ranges_roughly: the entries overlapping the bounds
\* are drained, the files of those no snapshot can read are deleted (a panic
\* when that call fails) and the bounds widened to include every drained entry
\* are returned.
clean_overlap_ranges_roughly(ranges, e, start_key, end_key, fail) ==
    LET d == drain_overlap_ranges(ranges, start_key, end_key)
    IN  [ranges |-> d.ranges,
         start_key |-> MinKey({start_key} \cup {x[2] : x \in Range(d.drained)}),
         end_key |-> MaxKey({end_key} \cup {x[3] : x \in Range(d.drained)}),
         calls |-> IF d.drained = <<>> THEN <<>>
                   ELSE <<Call(Strategy("DeleteFiles", FALSE), "all",
                               df_ranges(d.drained, oldest_snapshot_sequence(e)))>>,
         panicked |-> d.drained # <<>> /\ fail = "overlap_files"]

\* strategy_of without forcely_by_key.
strategy_of_unforced(cf, udr, forcely_by_key, allow_write_during_ingestion) ==
    IF cf = "lock" THEN Strategy("DeleteByKey", FALSE)
    ELSE IF udr THEN Strategy("DeleteByRange", FALSE)
    ELSE Strategy("DeleteByWriter", allow_write_during_ingestion)

\* The strategy delete_all_in_range chooses for a column family.
strategy_of(cf, udr, forcely_by_key, allow_write_during_ingestion) ==
    IF cf = "lock" THEN Strategy("DeleteByKey", FALSE)
    ELSE IF udr THEN Strategy("DeleteByRange", FALSE)
    ELSE IF forcely_by_key THEN Strategy("DeleteByKey", FALSE)
    ELSE Strategy("DeleteByWriter", allow_write_during_ingestion)

\* Runner::delete_all_in_range: one call per column family, in the order of
\* cf_names, up to the first that fails.
delete_all_in_range(ranges, forcely_by_key, allow_write_during_ingestion, udr, fail) ==
    LET n == IF fail \in Range(CfNames)
             THEN CHOOSE j \in DOMAIN CfNames : CfNames[j] = fail
             ELSE Len(CfNames)
    IN  [calls |-> [j \in 1..n |->
                       Call(strategy_of(CfNames[j], udr, forcely_by_key,
                                        allow_write_during_ingestion),
                            CfNames[j], ranges)],
         err |-> fail \in Range(CfNames)]

\* clean_overlap_ranges that deletes the range and leaves the entries in the
\* map.
clean_overlap_ranges_undrained(ranges, e, start_key, end_key, udr, fail) ==
    With(clean_overlap_ranges_roughly(ranges, e, start_key, end_key, fail),
         LAMBDA c :
            IF c.panicked
            THEN [ranges |-> ranges, calls |-> c.calls, panicked |-> TRUE, err |-> FALSE]
            ELSE With(delete_all_in_range(<<<<c.start_key, c.end_key>>>>, FALSE, TRUE, udr,
                                          fail),
                      LAMBDA d : [ranges |-> ranges, calls |-> c.calls \o d.calls,
                                  panicked |-> FALSE, err |-> d.err]))

\* Runner::clean_overlap_ranges: the overlapping entries are drained, then
\* the widened range is deleted in every column family.
clean_overlap_ranges(ranges, e, start_key, end_key, udr, fail) ==
    With(clean_overlap_ranges_roughly(ranges, e, start_key, end_key, fail),
         LAMBDA c :
            IF c.panicked
            THEN [ranges |-> c.ranges, calls |-> c.calls, panicked |-> TRUE, err |-> FALSE]
            ELSE With(delete_all_in_range(<<<<c.start_key, c.end_key>>>>, FALSE, TRUE, udr,
                                          fail),
                      LAMBDA d : [ranges |-> c.ranges, calls |-> c.calls \o d.calls,
                                  panicked |-> FALSE, err |-> d.err]))

\* insert_pending_delete_range that inserts into the map as it was before
\* the overlap cleanup.
insert_pending_delete_range_undrained(ranges, e, region_id, start_key, end_key, fail) ==
    LET c == clean_overlap_ranges_roughly(ranges, e, start_key, end_key, fail)
        seq == e.latest_sequence_number
        i == insert(ranges, region_id, c.start_key, c.end_key, seq)
    IN  IF c.panicked THEN [ranges |-> c.ranges, panicked |-> TRUE, calls |-> c.calls]
        ELSE [ranges |-> i.ranges, panicked |-> i.panicked, calls |-> c.calls]

\* Runner::insert_pending_delete_range: the widened range is registered under
\* the latest sequence number of the engine.
insert_pending_delete_range(ranges, e, region_id, start_key, end_key, fail) ==
    LET c == clean_overlap_ranges_roughly(ranges, e, start_key, end_key, fail)
        seq == e.latest_sequence_number
        i == insert(c.ranges, region_id, c.start_key, c.end_key, seq)
    IN  IF c.panicked THEN [ranges |-> c.ranges, panicked |-> TRUE, calls |-> c.calls]
        ELSE [ranges |-> i.ranges, panicked |-> i.panicked, calls |-> c.calls]

\* clean_stale_ranges that does not ask for the write stall.
clean_stale_ranges_unstalled(ranges, e, offlined, stall, udr, fail) ==
    LET stale == stale_ranges(ranges, oldest_snapshot_sequence(e))
        R == RangesOf(stale)
        files == <<Call(Strategy("DeleteFiles", FALSE), "all", R)>>
        d == delete_all_in_range(R, TRUE, FALSE, udr, fail)
        blobs == <<Call(Strategy("DeleteBlobs", FALSE), "all", R)>>
    IN  IF offlined \/ stale = <<>>
        THEN [ranges |-> ranges, panicked |-> FALSE, calls |-> <<>>]
        ELSE [ranges |-> RemoveKeys(ranges, {x[2] : x \in Range(stale)}),
              panicked |-> FALSE, calls |-> files \o d.calls \o blobs]

\* clean_stale_ranges without the truncation to CLEANUP_MAX_REGION_COUNT.
clean_stale_ranges_untruncated(ranges, e, offlined, stall, udr, fail) ==
    LET stale == stale_ranges(ranges, oldest_snapshot_sequence(e))
        R == RangesOf(stale)
        files == <<Call(Strategy("DeleteFiles", FALSE), "all", R)>>
        d == delete_all_in_range(R, TRUE, FALSE, udr, fail)
        blobs == <<Call(Strategy("DeleteBlobs", FALSE), "all", R)>>
    IN  IF offlined \/ stall \/ stale = <<>>
        THEN [ranges |-> ranges, panicked |-> FALSE, calls |-> <<>>]
        ELSE IF fail = "files"
        THEN [ranges |-> ranges, panicked |-> TRUE, calls |-> files]
        ELSE IF d.err
        THEN [ranges |-> ranges, panicked |-> FALSE, calls |-> files \o d.calls]
        ELSE IF fail = "blobs"
        THEN [ranges |-> ranges, panicked |-> TRUE, calls |-> files \o d.calls \o blobs]
        ELSE [ranges |-> RemoveKeys(ranges, {x[2] : x \in Range(stale)}),
              panicked |-> FALSE, calls |-> files \o d.calls \o blobs]

\* Runner::clean_stale_ranges: nothing when the store is offlined or an ingest
\* would stall writes; else the first CLEANUP_MAX_REGION_COUNT entries that no
\* snapshot can read are deleted by files, by column family and by blob files
\* and leave the map. A failed file or blob delete panics; a failed delete of a
\* column family ends the sweep with the entries kept.
clean_stale_ranges(ranges, e, offlined, stall, udr, fail) ==
    LET stale == stale_ranges(ranges, oldest_snapshot_sequence(e))
        region_ranges == SubSeq(stale, 1, IF Len(stale) < CLEANUP_MAX_REGION_COUNT
                                          THEN Len(stale) ELSE CLEANUP_MAX_REGION_COUNT)
        R == RangesOf(region_ranges)
        files == <<Call(Strategy("DeleteFiles", FALSE), "all", R)>>
        d == delete_all_in_range(R, TRUE, FALSE, udr, fail)
        blobs == <<Call(Strategy("DeleteBlobs", FALSE), "all", R)>>
    IN  IF offlined \/ stall \/ stale = <<>>
        THEN [ranges |-> ranges, panicked |-> FALSE, calls |-> <<>>]
        ELSE IF fail = "files"
        THEN [ranges |-> ranges, panicked |-> TRUE, calls |-> files]
        ELSE IF d.err
        THEN [ranges |-> ranges, panicked |-> FALSE, calls |-> files \o d.calls]
        ELSE IF fail = "blobs"
        THEN [ranges |-> ranges, panicked |-> TRUE, calls |-> files \o d.calls \o blobs]
        ELSE [ranges |-> RemoveKeys(ranges, {x[2] : x \in Range(region_ranges)}),
              panicked |-> FALSE, calls |-> files \o d.calls \o blobs]

\* What mgr.is_offlined() and ingest_maybe_stall() return to a sweep (the
\* second is not asked when the first is true) and the step of the handler
\* that fails.
SweepInputs ==
    {<<FALSE, FALSE, "none">>, <<FALSE, TRUE, "none">>, <<TRUE, FALSE, "none">>}

\* Runnable::run(Task::Destroy): the range is registered, then a stale sweep
\* runs.
RunDestroy(region_id, start_key, end_key, offlined, stall, fail) ==
    /\ ~panicked
    /\ \E r \in {insert_pending_delete_range(pending_delete_ranges, kv_engine, region_id,
                                             start_key, end_key, fail)} :
          IF r.panicked
          THEN /\ panicked' = TRUE
               /\ pending_delete_ranges' = r.ranges
          ELSE \E c \in {clean_stale_ranges(r.ranges, kv_engine, offlined, stall,
                                            use_delete_range, fail)} :
                  /\ panicked' = c.panicked
                  /\ pending_delete_ranges' = c.ranges
    /\ last' = Op("destroy", <<region_id, start_key, end_key>>)
    /\ UNCHANGED <<iter_vars, reply, mgr_vars, clean_stale_tick, kv_engine,
                   use_delete_range, pending_applies, region_local_state, admin_vars>>

\* ------------------------------------------------------- snapshot applies
\* JOB_STATUS_*: the shared status of an Apply task.
JOB_STATUS_PENDING == "Pending"
JOB_STATUS_RUNNING == "Running"
JOB_STATUS_CANCELLING == "Cancelling"
JOB_STATUS_CANCELLED == "Cancelled"
JOB_STATUS_FINISHED == "Finished"
JOB_STATUS_FAILED == "Failed"

\* Task::Apply { region_id, status, peer_id }.
ApplyTask(region_id, peer_id, status) ==
    [region_id |-> region_id, peer_id |-> peer_id, status |-> status]

\* The peer of the store in a region.
PeerOf(region_id) == region_id + 10

\* SNAPSHOT_CFS and plain_file_used.
SNAPSHOT_CFS == <<"default", "lock", "write">>

plain_file_used(cf) == cf = "lock"

\* ingest_maybe_stall that asks the first snapshot column family only.
ingest_maybe_stall_first(slow) ==
    ~plain_file_used(SNAPSHOT_CFS[1]) /\ SNAPSHOT_CFS[1] \in slow

\* Runner::ingest_maybe_stall; slow is the set of column families for which
\* ingest_maybe_slowdown_writes returns true.
ingest_maybe_stall(slow) ==
    \E j \in DOMAIN SNAPSHOT_CFS :
        ~plain_file_used(SNAPSHOT_CFS[j]) /\ SNAPSHOT_CFS[j] \in slow

\* The moments at which a cancel of the peer (Running -> Cancelling) can land
\* while an apply runs: before the check_abort that precedes the overlap
\* cleanup, during the cleanup, before the check_abort that precedes the
\* ingest, during the ingest where Snapshot::apply sees it, or after
\* apply_snap has returned.
CancelPoints ==
    <<"before_cleanup", "after_cleanup", "before_ingest", "ingesting", "late">>

\* The steps of apply_snap that can fail.
ApplyFaults ==
    {"none", "region_state", "apply_state", "get_snapshot", "missing_file", "apply",
     "write_batch"}

\* What one apply meets: the range of the region in its region state, when a
\* cancel lands ("never" when none does), the step that fails and the deletion
\* call of the overlap cleanup that fails.
ApplyInput(range, cancel_at, fault, fail) ==
    [range |-> range, cancel_at |-> cancel_at, fault |-> fault, fail |-> fail]

\* check_abort at the n-th of the four places of apply_snap (the fifth is
\* inside Snapshot::apply): the status is Cancelling when it was at entry or a
\* cancel has landed before.
check_abort(status, inp, n) ==
    \/ status = JOB_STATUS_CANCELLING
    \/ \E j \in 2..n : CancelPoints[j - 1] = inp.cancel_at

\* The outcome of apply_snap: what is left of the worker and of the engine,
\* the steps taken in order, and Ok, Abort, Err or Panic.
Outcome(ranges, e, rs, events, calls, result) ==
    [ranges |-> ranges, engine |-> e, region_state |-> rs, events |-> events,
     calls |-> calls, result |-> result]

\* apply_snap that returns Ok after the ingest without the write batch.
apply_snap_ingest_unwritten(ranges, e, rs, task, status, inp, events, calls) ==
    IF inp.fault = "get_snapshot" \/ inp.fault = "missing_file"
    THEN Outcome(ranges, e, rs, events \o <<"register", "deregister">>, calls, "Err")
    ELSE IF check_abort(status, inp, 4)
    THEN Outcome(ranges, e, rs, events \o <<"register", "check_abort", "deregister">>,
                 calls, "Abort")
    ELSE Outcome(ranges, [e EXCEPT !.latest_sequence_number = @ + 1], rs,
                 events \o <<"register", "check_abort", "apply", "ingested",
                             "post_apply_snapshot", "on_apply_snapshot_committed",
                             "deregister">>, calls, "Ok")

\* apply_snap from the ingest on: Snapshot::apply, then one synced write batch
\* that sets the region state to Normal and deletes snapshot_raft_state_key.
apply_snap_ingest(ranges, e, rs, task, status, inp, events, calls) ==
    IF inp.fault = "get_snapshot" \/ inp.fault = "missing_file"
    THEN Outcome(ranges, e, rs, events \o <<"register", "deregister">>, calls, "Err")
    ELSE IF check_abort(status, inp, 4)
    THEN Outcome(ranges, e, rs, events \o <<"register", "check_abort", "deregister">>,
                 calls, "Abort")
    ELSE IF inp.cancel_at = "ingesting"
    THEN Outcome(ranges, e, rs,
                 events \o <<"register", "check_abort", "apply", "deregister">>, calls,
                 "Abort")
    ELSE IF inp.fault = "apply"
    THEN Outcome(ranges, e, rs,
                 events \o <<"register", "check_abort", "apply", "deregister">>, calls,
                 "Err")
    ELSE IF inp.fault = "write_batch"
    THEN Outcome(ranges, [e EXCEPT !.latest_sequence_number = @ + 1], rs,
                 events \o <<"register", "check_abort", "apply", "ingested",
                             "post_apply_snapshot", "write_batch">>, calls, "Panic")
    ELSE Outcome(ranges, [e EXCEPT !.latest_sequence_number = @ + 1],
                 [rs EXCEPT ![task.region_id] = "Normal"],
                 events \o <<"register", "check_abort", "apply", "ingested",
                             "post_apply_snapshot", "write_batch", "region_state_normal",
                             "snapshot_raft_state_deleted", "synced",
                             "on_apply_snapshot_committed", "deregister">>, calls, "Ok")

\* apply_snap from the overlap cleanup on.
apply_snap_cleanup(ranges, e, rs, task, status, inp, udr, events) ==
    With(clean_overlap_ranges(ranges, e, inp.range[1], inp.range[2], udr, inp.fail),
         LAMBDA c :
            IF c.panicked
            THEN Outcome(c.ranges, e, rs, events \o <<"clean_overlap_ranges">>, c.calls,
                         "Panic")
            ELSE IF c.err
            THEN Outcome(c.ranges, e, rs, events \o <<"clean_overlap_ranges">>, c.calls,
                         "Err")
            ELSE IF check_abort(status, inp, 3)
            THEN Outcome(c.ranges, e, rs,
                         events \o <<"clean_overlap_ranges", "check_abort">>, c.calls,
                         "Abort")
            ELSE IF inp.fault = "apply_state"
            THEN Outcome(c.ranges, e, rs,
                         events \o <<"clean_overlap_ranges", "check_abort", "apply_state">>,
                         c.calls, "Err")
            ELSE apply_snap_ingest(c.ranges, e, rs, task, status, inp,
                                   events \o <<"clean_overlap_ranges", "check_abort",
                                               "apply_state">>, c.calls))

\* apply_snap that goes on when the status is Cancelling at entry.
apply_snap_unchecked(ranges, e, rs, task, status, inp, udr) ==
    IF inp.fault = "region_state"
    THEN Outcome(ranges, e, rs, <<"check_abort", "region_state">>, <<>>, "Err")
    ELSE IF check_abort(status, inp, 2)
    THEN Outcome(ranges, e, rs, <<"check_abort", "region_state", "check_abort">>, <<>>,
                 "Abort")
    ELSE apply_snap_cleanup(ranges, e, rs, task, status, inp, udr,
                            <<"check_abort", "region_state", "check_abort">>)

\* Runner::apply_snap.
apply_snap(ranges, e, rs, task, status, inp, udr) ==
    IF check_abort(status, inp, 1)
    THEN Outcome(ranges, e, rs, <<"check_abort">>, <<>>, "Abort")
    ELSE IF inp.fault = "region_state"
    THEN Outcome(ranges, e, rs, <<"check_abort", "region_state">>, <<>>, "Err")
    ELSE IF check_abort(status, inp, 2)
    THEN Outcome(ranges, e, rs, <<"check_abort", "region_state", "check_abort">>, <<>>,
                 "Abort")
    ELSE apply_snap_cleanup(ranges, e, rs, task, status, inp, udr,
                            <<"check_abort", "region_state", "check_abort">>)

\* The message handle_apply sends to the router.
SnapshotApplied(region_id, peer_id, tombstone) ==
    [region_id |-> region_id, peer_id |-> peer_id, tombstone |-> tombstone]

\* What handle_apply leaves: the outcome of apply_snap, the status that the
\* swap replaced ("None" when there was no swap), the final status of the
\* task, and the messages sent in order; the events end with the status set
\* and the message sent.
Handled(o, task, events, replaced, status, sent) ==
    [ranges |-> o.ranges, engine |-> o.engine, region_state |-> o.region_state,
     panicked |-> o.result = "Panic", events |-> o.events \o events, calls |-> o.calls,
     region_id |-> task.region_id, peer_id |-> task.peer_id, replaced |-> replaced,
     status |-> status, sent |-> sent]

\* The shared status when handle_apply swaps it: Cancelling when it was at
\* entry (compare_exchange from Pending fails) or a cancel has landed since,
\* else Running.
status_at_swap(task, inp) ==
    IF task.status = JOB_STATUS_CANCELLING \/ inp.cancel_at # "never"
    THEN JOB_STATUS_CANCELLING
    ELSE JOB_STATUS_RUNNING

\* The Abort arm of handle_apply: the status is swapped to Cancelled and the
\* value it replaces is asserted to be Cancelling.
handle_abort(o, task, inp) ==
    IF status_at_swap(task, inp) = JOB_STATUS_CANCELLING
    THEN Handled(o, task, <<"cancel_apply_snapshot", "status_set", "send">>,
                 status_at_swap(task, inp), JOB_STATUS_CANCELLED,
                 <<SnapshotApplied(task.region_id, task.peer_id, FALSE)>>)
    ELSE Handled([o EXCEPT !.result = "Panic"], task,
                 <<"cancel_apply_snapshot", "status_set">>, status_at_swap(task, inp),
                 JOB_STATUS_CANCELLED, <<>>)

\* The Ok arm of handle_apply: the status is swapped to Finished whatever it
\* was.
handle_ok(o, task, inp) ==
    Handled(o, task, <<"status_set", "send">>, status_at_swap(task, inp),
            JOB_STATUS_FINISHED, <<SnapshotApplied(task.region_id, task.peer_id, FALSE)>>)

\* The Err arm of handle_apply: the status is swapped to Failed and the peer
\* is to be tombstoned.
handle_err(o, task, inp) ==
    Handled(o, task, <<"cancel_apply_snapshot", "status_set", "send">>,
            status_at_swap(task, inp), JOB_STATUS_FAILED,
            <<SnapshotApplied(task.region_id, task.peer_id, TRUE)>>)

\* handle_apply that takes every error of apply_snap for an abort.
handle_apply_abort_on_err(ranges, e, rs, task, inp, udr) ==
    With(apply_snap(ranges, e, rs, task, task.status, inp, udr),
         LAMBDA o :
            IF o.result = "Panic" THEN Handled(o, task, <<>>, "None", JOB_STATUS_RUNNING, <<>>)
            ELSE IF o.result = "Ok" THEN handle_ok(o, task, inp)
            ELSE handle_abort(o, task, inp))

\* handle_apply that sets Finished only when the status is still Running and
\* honours a cancel that landed after the last check.
handle_apply_keeping_cancel(ranges, e, rs, task, inp, udr) ==
    With(apply_snap(ranges, e, rs, task, task.status, inp, udr),
         LAMBDA o :
            IF o.result = "Panic" THEN Handled(o, task, <<>>, "None", JOB_STATUS_RUNNING, <<>>)
            ELSE IF o.result = "Ok" /\ status_at_swap(task, inp) = JOB_STATUS_RUNNING
            THEN handle_ok(o, task, inp)
            ELSE IF o.result \in {"Ok", "Abort"} THEN handle_abort(o, task, inp)
            ELSE handle_err(o, task, inp))

\* Runner::handle_apply: Pending becomes Running, apply_snap runs, the status
\* is swapped to Finished, Cancelled or Failed and SnapshotApplied is sent.
handle_apply(ranges, e, rs, task, inp, udr) ==
    With(apply_snap(ranges, e, rs, task, task.status, inp, udr),
         LAMBDA o :
            IF o.result = "Panic" THEN Handled(o, task, <<>>, "None", JOB_STATUS_RUNNING, <<>>)
            ELSE IF o.result = "Ok" THEN handle_ok(o, task, inp)
            ELSE IF o.result = "Abort" THEN handle_abort(o, task, inp)
            ELSE handle_err(o, task, inp))

\* What handle_pending_applies meets before one apply: the column families
\* for which ingest_maybe_slowdown_writes returns true, what
\* can_apply_snapshot returns, and what the apply meets.
Check(slow, can_apply, inp) == [slow |-> slow, can_apply |-> can_apply, inp |-> inp]

\* The worker while it handles its pending applies: its fields, and the
\* applies handled so far in order.
Worker(ranges, e, rs, queue, is_panicked, handled, calls) ==
    [ranges |-> ranges, engine |-> e, region_state |-> rs, pending_applies |-> queue,
     panicked |-> is_panicked, handled |-> handled, calls |-> calls]

\* What is kept of a handled apply.
HandledEntry(h) ==
    [region_id |-> h.region_id, peer_id |-> h.peer_id, replaced |-> h.replaced,
     status |-> h.status, sent |-> h.sent]

\* The worker after handle_apply of the front of the queue returned h.
AfterApply(w, handled) ==
    With(handled,
         LAMBDA h : Worker(h.ranges, h.engine, h.region_state, Tail(w.pending_applies),
                           h.panicked, Append(w.handled, HandledEntry(h)),
                           w.calls \o h.calls))

\* handle_pending_applies that takes the back of the queue.
RECURSIVE handle_pending_applies_lifo(_, _, _, _)
handle_pending_applies_lifo(w, checks, k, udr) ==
    IF w.pending_applies = <<>> \/ w.panicked \/ k > Len(checks) THEN w
    ELSE IF ingest_maybe_stall(checks[k].slow) \/ ~checks[k].can_apply THEN w
    ELSE With(AfterApply([w EXCEPT !.pending_applies =
                                      <<w.pending_applies[Len(w.pending_applies)]>>
                                          \o SubSeq(w.pending_applies, 1,
                                                    Len(w.pending_applies) - 1)],
                         handle_apply(w.ranges, w.engine, w.region_state,
                                      w.pending_applies[Len(w.pending_applies)],
                                      checks[k].inp, udr)),
              LAMBDA v : handle_pending_applies_lifo(v, checks, k + 1, udr))

\* Runner::handle_pending_applies: while the queue is not empty, stop when an
\* ingest may stall writes or the engine cannot apply a snapshot; else pop the
\* front and handle it. checks[k] is what the k-th round meets.
RECURSIVE handle_pending_applies(_, _, _, _)
handle_pending_applies(w, checks, k, udr) ==
    IF w.pending_applies = <<>> \/ w.panicked \/ k > Len(checks) THEN w
    ELSE IF ingest_maybe_stall(checks[k].slow) \/ ~checks[k].can_apply THEN w
    ELSE With(AfterApply(w, handle_apply(w.ranges, w.engine, w.region_state,
                                         Head(w.pending_applies), checks[k].inp, udr)),
              LAMBDA v : handle_pending_applies(v, checks, k + 1, udr))

\* The regions that have a task in the queue.
QueuedRegions(queue) == {queue[j].region_id : j \in DOMAIN queue}

\* The worker as a handler finds it.
ThisWorker(queue, rs) ==
    Worker(pending_delete_ranges, kv_engine, rs, queue, FALSE, <<>>, <<>>)

\* Runnable::run(Task::Apply): the task joins the back of the queue and the
\* pending applies are handled. The peer has set the region state to Applying
\* and the status to Pending before it scheduled the task, and it has one
\* snapshot to apply at a time. pre_apply_snapshot only calls the observer.
RunApply(region_id, checks) ==
    /\ ~panicked
    /\ region_id \notin QueuedRegions(pending_applies)
    /\ Len(checks) > Len(pending_applies)
    /\ \E w \in {handle_pending_applies(
                     ThisWorker(Append(pending_applies,
                                       ApplyTask(region_id, PeerOf(region_id),
                                                 JOB_STATUS_PENDING)),
                                [region_local_state EXCEPT ![region_id] = "Applying"]),
                     checks, 1, use_delete_range)} :
          /\ w.engine.latest_sequence_number <= MaxEngineSeq
          /\ pending_delete_ranges' = w.ranges
          /\ kv_engine' = w.engine
          /\ region_local_state' = w.region_state
          /\ pending_applies' = w.pending_applies
          /\ panicked' = w.panicked
          /\ last' = [Op("apply", <<region_id>>) EXCEPT !.res = w.handled]
    /\ UNCHANGED <<iter_vars, reply, mgr_vars, clean_stale_tick, use_delete_range, admin_vars>>

\* RunnableWithTimer::on_timeout: the pending applies are handled, then every
\* clean_stale_ranges_tick ticks a stale sweep runs.
OnTimeout(checks, offlined, stall, fail) ==
    /\ ~panicked
    /\ Len(checks) >= Len(pending_applies)
    /\ \E w \in {handle_pending_applies(ThisWorker(pending_applies, region_local_state),
                                        checks, 1, use_delete_range)} :
          /\ w.engine.latest_sequence_number <= MaxEngineSeq
          /\ kv_engine' = w.engine
          /\ region_local_state' = w.region_state
          /\ pending_applies' = w.pending_applies
          /\ IF w.panicked
             THEN /\ panicked' = TRUE
                  /\ pending_delete_ranges' = w.ranges
                  /\ clean_stale_tick' = clean_stale_tick
                  /\ last' = [Op("timeout", <<>>) EXCEPT !.res = w.handled]
             ELSE IF clean_stale_tick + 1 >= clean_stale_ranges_tick
             THEN \E c \in {clean_stale_ranges(w.ranges, w.engine, offlined, stall,
                                               use_delete_range, fail)} :
                     /\ panicked' = c.panicked
                     /\ pending_delete_ranges' = c.ranges
                     /\ clean_stale_tick' = IF c.panicked THEN clean_stale_tick + 1 ELSE 0
                     /\ last' = [Op("timeout", <<>>) EXCEPT !.res = w.handled]
             ELSE /\ panicked' = FALSE
                  /\ pending_delete_ranges' = w.ranges
                  /\ clean_stale_tick' = clean_stale_tick + 1
                  /\ last' = [Op("timeout", <<>>) EXCEPT !.res = w.handled]
    /\ UNCHANGED <<iter_vars, reply, mgr_vars, use_delete_range, admin_vars>>

\* The peer cancels the apply of a task that waits in the queue: its status
\* goes from Pending to Cancelling.
CancelApply(region_id) ==
    /\ ~panicked
    /\ \E j \in DOMAIN pending_applies :
          /\ pending_applies[j].region_id = region_id
          /\ pending_applies[j].status = JOB_STATUS_PENDING
          /\ pending_applies' =
                [pending_applies EXCEPT ![j].status = JOB_STATUS_CANCELLING]
    /\ last' = Op("cancel", <<region_id>>)
    /\ UNCHANGED <<iter_vars, reply, mgr_vars, panicked, pending_delete_ranges,
                   clean_stale_tick, kv_engine, use_delete_range, region_local_state, admin_vars>>

\* A write to the engine.
EngineWrite ==
    /\ ~panicked
    /\ kv_engine.latest_sequence_number < MaxEngineSeq
    /\ kv_engine' = [kv_engine EXCEPT !.latest_sequence_number = @ + 1]
    /\ last' = NoOp
    /\ UNCHANGED <<iter_vars, reply, mgr_vars, panicked, pending_delete_ranges,
                   clean_stale_tick, use_delete_range, pending_applies,
                   region_local_state, admin_vars>>

\* A reader takes a snapshot of the engine.
EngineSnapshot ==
    /\ ~panicked
    /\ kv_engine.latest_sequence_number \notin kv_engine.snapshots
    /\ kv_engine' = [kv_engine EXCEPT !.snapshots = @ \cup {kv_engine.latest_sequence_number}]
    /\ last' = NoOp
    /\ UNCHANGED <<iter_vars, reply, mgr_vars, panicked, pending_delete_ranges,
                   clean_stale_tick, use_delete_range, pending_applies,
                   region_local_state, admin_vars>>

\* A reader releases its snapshot of the engine.
EngineRelease(q) ==
    /\ ~panicked
    /\ q \in kv_engine.snapshots
    /\ kv_engine' = [kv_engine EXCEPT !.snapshots = @ \ {q}]
    /\ last' = NoOp
    /\ UNCHANGED <<iter_vars, reply, mgr_vars, panicked, pending_delete_ranges,
                   clean_stale_tick, use_delete_range, pending_applies,
                   region_local_state, admin_vars>>

\* No column family is slow and the engine can apply.
Go(inp) == Check({}, TRUE, inp)

\* The applies of the specification of the pending ranges: each is handled at
\* once and is cancelled before the cleanup, cancelled after the cleanup, or
\* ingested.
WorkerChecks ==
    {<<Go(ApplyInput(r, cancel_at, "none", "none"))>> :
        r \in WRanges, cancel_at \in {"before_cleanup", "after_cleanup", "never"}}

NextWorker ==
    \/ \E region_id \in WRegionIds, r \in WRanges, i \in SweepInputs :
          RunDestroy(region_id, r[1], r[2], i[1], i[2], i[3])
    \/ \E checks \in WorkerChecks : RunApply(1, checks)
    \/ \E i \in SweepInputs : OnTimeout(<<>>, i[1], i[2], i[3])
    \/ EngineWrite
    \/ EngineSnapshot
    \/ \E q \in 0..MaxEngineSeq : EngineRelease(q)

SpecWorker == Init /\ [][NextWorker]_vars

\* ------------------------------------------- claims on the pending ranges
\* The half-open range [start_key, end_key) of the entry at s_key.
EntryRange(ranges, s_key) == <<s_key, ranges[s_key].end_key>>

\* Two non-empty half-open ranges share a key.
Intersects(a, b) == BytesLess(a[1], b[2]) /\ BytesLess(b[1], a[2])

\* No two entries of the map share a key.
Disjoint(ranges) ==
    \A a, b \in DOMAIN ranges :
        a # b => ~Intersects(EntryRange(ranges, a), EntryRange(ranges, b))

\* C18: after any sequence of Destroy tasks, Apply tasks and stale sweeps the
\* entries of the pending-delete-range map are pairwise disjoint as half-open
\* ranges [start_key, end_key), and no registration has hit the overlap panic
\* of insert.
C18_EntriesPairwiseDisjoint == Disjoint(pending_delete_ranges) /\ ~panicked

\* A Destroy has just left the map with three entries, each ending where the
\* next one starts.
C18_Witness ==
    /\ last.op = "destroy"
    /\ Cardinality(DOMAIN pending_delete_ranges) = 3
    /\ \E a, b \in DOMAIN pending_delete_ranges : pending_delete_ranges[a].end_key = b

\* The keys of the entries of the map whose range intersects [start_key,
\* end_key).
Hit(ranges, start_key, end_key) ==
    {k \in DOMAIN ranges : Intersects(EntryRange(ranges, k), <<start_key, end_key>>)}

\* The list carries its entries by strictly ascending start key.
Ascending(entries) ==
    \A i, j \in 1..Len(entries) : i < j => BytesLess(entries[i][2], entries[j][2])

\* What drain_overlap_ranges(start_key, end_key) has to do on the map.
DrainsExactly(ranges, start_key, end_key) ==
    \E d \in {drain_overlap_ranges(ranges, start_key, end_key)} :
        /\ Range(d.drained) = {EntryOf(ranges, k) : k \in Hit(ranges, start_key, end_key)}
        /\ Len(d.drained) = Cardinality(Hit(ranges, start_key, end_key))
        /\ Ascending(d.drained)
        /\ DOMAIN d.ranges = DOMAIN ranges \ Hit(ranges, start_key, end_key)
        /\ \A k \in DOMAIN d.ranges : d.ranges[k] = ranges[k]

\* C19: on a map with pairwise disjoint entries, drain_overlap_ranges(s, e)
\* returns exactly the entries whose range intersects [s, e), an entry that
\* starts before s and ends after s included, by ascending start key, removes
\* exactly those entries and leaves every other entry unchanged.
C19_DrainReturnsIntersecting ==
    Disjoint(pending_delete_ranges) =>
        \A r \in WRanges : DrainsExactly(pending_delete_ranges, r[1], r[2])

\* A Destroy of [s, e) has drained an entry that started before s and ended
\* after s, so that its own entry starts before s, and has left another entry
\* in the map.
C19_Witness ==
    /\ last.op = "destroy"
    /\ \E k \in DOMAIN pending_delete_ranges :
          /\ BytesLess(k, last.arg[2])
          /\ BytesLess(last.arg[2], pending_delete_ranges[k].end_key)
          /\ pending_delete_ranges[k].region_id = last.arg[1]
          /\ DOMAIN pending_delete_ranges # {k}

\* The map a Destroy of region_id over [start_key, end_key) has to leave when
\* it registers its range: the entries that intersect the range are gone, one
\* entry over the union of the range and of those entries carries region_id and
\* the latest sequence number of the engine, the other entries are as they
\* were.
RegisteredMap(ranges, e, region_id, start_key, end_key) ==
    LET hit == Hit(ranges, start_key, end_key)
        lo == MinKey({start_key} \cup hit)
        hi == MaxKey({end_key} \cup {ranges[k].end_key : k \in hit})
    IN  [k \in (DOMAIN ranges \ hit) \cup {lo} |->
            IF k = lo
            THEN [region_id |-> region_id, end_key |-> hi,
                  stale_sequence |-> e.latest_sequence_number]
            ELSE ranges[k]]

\* C20: when the worker registers a Destroy of [s, e), every pending entry
\* intersecting [s, e) is removed and a single new entry is inserted whose
\* range is the union [min(s, drained starts), max(e, drained ends)), whose
\* region_id is the one of the task and whose stale_sequence is the latest
\* sequence number of the engine at that moment; the entries that do not
\* intersect [s, e) are kept as they were. The handler leaves that map when its
\* sweep is skipped, and else that map without entries no snapshot can read.
C20_DestroyRegistersUnion ==
    [][last'.op = "destroy" =>
          LET reg == RegisteredMap(pending_delete_ranges, kv_engine, last'.arg[1],
                                   last'.arg[2], last'.arg[3])
          IN  /\ ~panicked'
              /\ \A k \in DOMAIN pending_delete_ranges' :
                    k \in DOMAIN reg /\ pending_delete_ranges'[k] = reg[k]
              /\ \A k \in DOMAIN reg \ DOMAIN pending_delete_ranges' :
                    reg[k].stale_sequence < oldest_snapshot_sequence(kv_engine)
              /\ RunDestroy(last'.arg[1], last'.arg[2], last'.arg[3], TRUE, FALSE, "none")
                    => pending_delete_ranges' = reg]_vars

\* A Destroy of [s, e) has left an entry that ends after e under its region id
\* and the latest sequence number of the engine, beside an older entry of
\* another region.
C20_Witness ==
    /\ last.op = "destroy"
    /\ kv_engine.latest_sequence_number > 0
    /\ \E k, o \in DOMAIN pending_delete_ranges :
          /\ BytesLeq(k, last.arg[2])
          /\ BytesLess(last.arg[3], pending_delete_ranges[k].end_key)
          /\ pending_delete_ranges[k].region_id = last.arg[1]
          /\ pending_delete_ranges[k].stale_sequence = kv_engine.latest_sequence_number
          /\ pending_delete_ranges[o].region_id # last.arg[1]
          /\ pending_delete_ranges[o].stale_sequence < kv_engine.latest_sequence_number

\* ------------------------------------------------- the deletions of sweeps
\* What a sweep meets when it is not skipped: each of its deletion steps can
\* be the one that fails.
SweepFailures == {<<FALSE, FALSE, f>> : f \in Failures}

\* An apply that is handled at once and runs its overlap cleanup, where the
\* delete of a column family may fail.
SweepChecks ==
    {<<Go(ApplyInput(r, "after_cleanup", "none", f))>> :
        r \in WRanges, f \in {"none", "overlap_files", "write"}}

NextSweep ==
    \/ \E r \in WRanges, i \in SweepInputs \cup SweepFailures :
          RunDestroy(1, r[1], r[2], i[1], i[2], i[3])
    \/ \E checks \in SweepChecks : RunApply(1, checks)
    \/ \E i \in SweepInputs \cup SweepFailures : OnTimeout(<<>>, i[1], i[2], i[3])
    \/ EngineWrite
    \/ EngineSnapshot
    \/ \E q \in 0..MaxEngineSeq : EngineRelease(q)

\* The worker with either configuration of use_delete_range.
InitSweep == InitCore /\ use_delete_range \in BOOLEAN

SpecSweep == InitSweep /\ [][NextSweep]_vars

\* The range is the range of an entry of the map that no live snapshot of the
\* engine can read: its stale_sequence is below the oldest snapshot sequence.
UnreadEntry(ranges, e, range) ==
    /\ range[1] \in DOMAIN ranges
    /\ ranges[range[1]].end_key = range[2]
    /\ ranges[range[1]].stale_sequence < oldest_snapshot_sequence(e)

\* The calls of the list that delete by files.
FileDeletes(calls) ==
    {calls[j] : j \in {i \in DOMAIN calls : calls[i].strategy.name = "DeleteFiles"}}

\* The entries of the map taken at or before whose stale_sequence a snapshot
\* of the engine is alive.
HeldEntries(ranges, e) ==
    {k \in DOMAIN ranges : \E q \in e.snapshots : q <= ranges[k].stale_sequence}

\* No range of the calls shares a key with an entry held by a snapshot.
SparesHeld(ranges, e, calls) ==
    \A c \in calls : \A r \in Range(c.ranges) : \A k \in HeldEntries(ranges, e) :
        ~Intersects(r, EntryRange(ranges, k))

\* The calls of the stale sweep of the worker, and of the overlap cleanup of
\* the worker for a range, when no call fails.
SweepCalls ==
    clean_stale_ranges(pending_delete_ranges, kv_engine, FALSE, FALSE, use_delete_range,
                       "none").calls

OverlapCalls(r) ==
    clean_overlap_ranges_roughly(pending_delete_ranges, kv_engine, r[1], r[2], "none").calls

\* C21: the worker deletes files over a pending range only if the
\* stale_sequence of the entry is strictly below the oldest snapshot sequence
\* of the engine read at that moment (u64::MAX without snapshot), in the stale
\* sweep and in the overlap cleanup, and every call of the sweep is over such
\* ranges only; so neither removes data of a pending range while a snapshot
\* of the engine taken at or before its stale_sequence is alive.
C21_FilesDeletedOnlyUnread ==
    /\ \A c \in Range(SweepCalls) : \A r \in Range(c.ranges) :
          UnreadEntry(pending_delete_ranges, kv_engine, r)
    /\ SparesHeld(pending_delete_ranges, kv_engine, Range(SweepCalls))
    /\ \A x \in WRanges :
          /\ \A c \in FileDeletes(OverlapCalls(x)) : \A r \in Range(c.ranges) :
                UnreadEntry(pending_delete_ranges, kv_engine, r)
          /\ SparesHeld(pending_delete_ranges, kv_engine, FileDeletes(OverlapCalls(x)))

\* A Destroy has left two entries: a sweep deletes the files of one, and the
\* overlap cleanup of a range that covers both deletes the files of that one
\* only, the other being held by a snapshot.
C21_Witness ==
    /\ last.op = "destroy"
    /\ \E k, h \in DOMAIN pending_delete_ranges :
          /\ h \in HeldEntries(pending_delete_ranges, kv_engine)
          /\ \E c \in FileDeletes(SweepCalls) :
                Range(c.ranges) = {EntryRange(pending_delete_ranges, k)}
          /\ \E x \in WRanges : \E c \in FileDeletes(OverlapCalls(x)) :
                /\ Range(c.ranges) = {EntryRange(pending_delete_ranges, k)}
                /\ Intersects(x, EntryRange(pending_delete_ranges, h))

\* The deletion steps of a stale sweep that can return an error.
SweepSteps == {"files", "blobs"} \cup Range(CfNames)

\* The stale sweep of the worker when the step returns an error.
FailedSweep(step) ==
    clean_stale_ranges(pending_delete_ranges, kv_engine, FALSE, FALSE, use_delete_range, step)

\* C22: in a stale sweep an error returned by any deletion step (file-level
\* delete, delete of a column family, blob-file delete) is swallowed: the
\* worker does not panic and the entries whose deletion failed stay in the
\* pending-delete map.
C22_SweepErrorsSwallowed ==
    \A step \in SweepSteps :
        /\ ~FailedSweep(step).panicked
        /\ FailedSweep(step).ranges = pending_delete_ranges

\* The sequence is the start of the other one.
IsPrefix(s, t) == Len(s) <= Len(t) /\ s = SubSeq(t, 1, Len(s))

\* The calls are a file-level delete, then one delete per column family in
\* the order of cf_names with the strategy chosen by per_cf, then a
\* blob-file delete, all over the same ranges.
InSweepOrder(calls, per_cf(_)) ==
    /\ Len(calls) = Len(CfNames) + 2
    /\ calls[1].strategy.name = "DeleteFiles"
    /\ calls[Len(calls)].strategy.name = "DeleteBlobs"
    /\ \A j \in DOMAIN CfNames :
          /\ calls[j + 1].cf = CfNames[j]
          /\ calls[j + 1].strategy = per_cf(CfNames[j])
    /\ \A j \in DOMAIN calls : calls[j].ranges = calls[1].ranges

\* A sweep of the worker that deletes something follows the order with the
\* strategies of per_cf, and a sweep with a failing step makes the calls of
\* the order up to that step.
SweepFollows(per_cf(_)) ==
    /\ SweepCalls # <<>> => InSweepOrder(SweepCalls, per_cf)
    /\ \A step \in SweepSteps : IsPrefix(FailedSweep(step).calls, SweepCalls)

\* C23 as stated: the steps of a stale sweep run in the order file-level
\* delete, delete per column family, blob-file delete; the lock CF is deleted
\* by key, every other CF by range when use_delete_range is on and by
\* DeleteByWriter when it is off.
C23_SweepByWriterWhenOff ==
    SweepFollows(LAMBDA cf : IF cf = "lock" THEN Strategy("DeleteByKey", FALSE)
                             ELSE IF use_delete_range THEN Strategy("DeleteByRange", FALSE)
                             ELSE Strategy("DeleteByWriter", FALSE))

\* C23, amended: the steps of a stale sweep run in the order file-level
\* delete, delete per column family, blob-file delete; the lock CF is deleted
\* by key, every other CF by range when use_delete_range is on and by key
\* when it is off.
C23_SweepByKeyWhenOff ==
    SweepFollows(LAMBDA cf : IF cf = "lock" THEN Strategy("DeleteByKey", FALSE)
                             ELSE IF use_delete_range THEN Strategy("DeleteByRange", FALSE)
                             ELSE Strategy("DeleteByKey", FALSE))

\* With use_delete_range off, a Destroy has left a stale entry that the next
\* sweep deletes, the write CF by key.
C23_Witness ==
    /\ ~use_delete_range
    /\ last.op = "destroy"
    /\ \E j \in DOMAIN SweepCalls :
          /\ SweepCalls[j].cf = "write"
          /\ SweepCalls[j].strategy.name = "DeleteByKey"
          /\ SweepCalls[j].ranges # <<>>

\* The ranges of the Destroy tasks and the range of the regions whose
\* snapshots are applied, which overlaps both.
ApplyDestroyRanges == {<<<<1>>, <<2>>>>, <<<<2>>, <<4>>>>}

ApplyRange == <<<<1>>, <<3>>>>

\* An apply that meets nothing.
Plain == ApplyInput(ApplyRange, "never", "none", "none")

\* What a round of handle_pending_applies can meet: a stall of the write CF,
\* an engine that cannot apply, a slow lock CF (a plain file, not asked), an
\* apply that succeeds, one cancelled before the cleanup, after it, while it
\* ingests or after its last check, one whose snapshot file is missing, one
\* whose cleanup fails in the write CF, one whose write batch fails.
ApplyRounds ==
    {Check({"write"}, TRUE, Plain), Check({}, FALSE, Plain), Check({"lock"}, TRUE, Plain),
     Go(ApplyInput(ApplyRange, "before_cleanup", "none", "none")),
     Go(ApplyInput(ApplyRange, "after_cleanup", "none", "none")),
     Go(ApplyInput(ApplyRange, "ingesting", "none", "none")),
     Go(ApplyInput(ApplyRange, "late", "none", "none")),
     Go(ApplyInput(ApplyRange, "never", "missing_file", "none")),
     Go(ApplyInput(ApplyRange, "never", "none", "write")),
     Go(ApplyInput(ApplyRange, "never", "write_batch", "none"))}

ApplyChecks == {<<a, b>> : a \in ApplyRounds, b \in ApplyRounds}

NextApply ==
    \/ \E r \in ApplyDestroyRanges, i \in SweepInputs :
          RunDestroy(1, r[1], r[2], i[1], i[2], i[3])
    \/ \E region_id \in WRegionIds, checks \in ApplyChecks : RunApply(region_id, checks)
    \/ \E checks \in ApplyChecks, stall \in BOOLEAN : OnTimeout(checks, FALSE, stall, "none")
    \/ \E region_id \in WRegionIds : CancelApply(region_id)

\* The worker with Apply tasks of two regions, cancels of the peers and
\* timer ticks.
SpecApply == Init /\ [][NextApply]_vars

\* The regions of the tasks or handled applies of a sequence, in order.
Ids(q) == [j \in DOMAIN q |-> q[j].region_id]

\* The applies a step has handled, in the order in which handle_apply ran.
HandledBy(op) == IF op.op \in {"apply", "timeout"} THEN op.res ELSE <<>>

\* The task a step has received.
ReceivedBy(op) == IF op.op = "apply" THEN <<op.arg[1]>> ELSE <<>>

\* C24: Apply tasks are handled in the order in which the worker received
\* them: in every step the applies handled, in the order of handling, followed
\* by the queue that is left, are the queue before the step followed by the
\* task received in that step; every handle_apply but one that panics
\* has sent its SnapshotApplied before the next starts. So a deferred apply is
\* never overtaken, by an older or by a new one, in a task or on a tick.
C24_AppliesInOrder ==
    [][/\ Ids(HandledBy(last')) \o Ids(pending_applies')
             = Ids(pending_applies) \o ReceivedBy(last')
       /\ \A j \in DOMAIN HandledBy(last') :
             j < Len(HandledBy(last')) => Len(HandledBy(last')[j].sent) = 1]_vars

\* A new Apply arrived while an older one was deferred: the older one was
\* handled first, then the new one.
C24_Witness ==
    /\ last.op = "apply"
    /\ Len(last.res) = 2
    /\ last.res[1].region_id # last.arg[1]
    /\ last.res[2].region_id = last.arg[1]
    /\ last.res[2].status = JOB_STATUS_FINISHED

\* A snapshot column family that is ingested (not written as a plain file)
\* reports that an ingest would slow down writes.
NonPlainSlow(slow) == slow \cap {"default", "write"} # {}

\* The queues handle_pending_applies can find in this state: the pending
\* applies on a tick, and the pending applies with a new task at the back.
QueuesNow ==
    {pending_applies}
        \cup {Append(pending_applies, ApplyTask(i, PeerOf(i), JOB_STATUS_PENDING)) :
                 i \in WRegionIds \ QueuedRegions(pending_applies)}

\* handle_pending_applies of the worker with the queue and the rounds.
PendingHandled(queue, checks) ==
    handle_pending_applies(ThisWorker(queue, region_local_state), checks, 1,
                           use_delete_range)

\* C25: the worker starts its k-th apply of a batch only if the k-th check,
\* made immediately before it, found no non-plain snapshot CF slow and
\* can_apply_snapshot true; when a check finds a non-plain CF slow, the applies
\* not yet handled stay queued in their order, and when it is the first check
\* nothing is handled or ingested and the worker is as before, for a new task
\* and on a tick.
C25_ApplyOnlyWhenNoStall ==
    \A queue \in QueuesNow : \A checks \in ApplyChecks :
        \A w \in {PendingHandled(queue, checks)} :
            /\ \A k \in DOMAIN w.handled :
                  ~NonPlainSlow(checks[k].slow) /\ checks[k].can_apply
            /\ Ids(w.handled) \o Ids(w.pending_applies) = Ids(queue)
            /\ \A k \in DOMAIN checks :
                  (k <= Len(queue) /\ NonPlainSlow(checks[k].slow))
                      => /\ Len(w.handled) < k
                         /\ k = 1 => /\ w.pending_applies = queue
                                     /\ w.engine = kv_engine
                                     /\ w.ranges = pending_delete_ranges
                                     /\ w.region_state = region_local_state

\* Two applies are queued and a tick has handled none of them: nothing was
\* ingested.
C25_Witness ==
    /\ last.op = "timeout"
    /\ last.res = <<>>
    /\ Len(pending_applies) = 2
    /\ kv_engine.latest_sequence_number = 0
    /\ \E checks \in ApplyChecks :
          /\ NonPlainSlow(checks[1].slow)
          /\ PendingHandled(pending_applies, checks).pending_applies = pending_applies

\* Everything one apply can meet: when a cancel lands, the step that fails,
\* the deletion call of the overlap cleanup that fails.
AllApplyInputs ==
    {ApplyInput(ApplyRange, cancel_at, fault, fail) :
        cancel_at \in Range(CancelPoints) \cup {"never"}, fault \in ApplyFaults,
        fail \in {"none", "overlap_files", "write"}}

\* The tasks handle_apply can be called with in this state: the front of the
\* pending queue, or a new task when the queue is empty.
FrontsNow == {Head(queue) : queue \in {q \in QueuesNow : q # <<>>}}

\* handle_apply of the worker for the task and what it meets.
ApplyHandled(task, inp) ==
    handle_apply(pending_delete_ranges, kv_engine, region_local_state, task, inp,
                 use_delete_range)

\* The places of an event in a sequence of events.
Places(events, name) == {j \in DOMAIN events : events[j] = name}

\* C26: every Apply task that the worker handles ends with its status in
\* Finished, Cancelled or Failed and with exactly one SnapshotApplied message
\* for its peer, sent after the status was set, whose tombstone is true iff
\* the status is Failed.
C26_EveryApplyNotified ==
    \A task \in FrontsNow : \A inp \in AllApplyInputs :
        \A h \in {ApplyHandled(task, inp)} :
            /\ h.status \in {JOB_STATUS_FINISHED, JOB_STATUS_CANCELLED, JOB_STATUS_FAILED}
            /\ h.sent = <<SnapshotApplied(task.region_id, task.peer_id,
                                          h.status = JOB_STATUS_FAILED)>>
            /\ Places(h.events, "send") = {Len(h.events)}
            /\ Places(h.events, "status_set") = {Len(h.events) - 1}

\* The status is Cancelling when apply_snap makes its n-th check_abort: it was
\* at entry, or the cancel of the peer has landed before that check.
CancellingAt(task, inp, n) ==
    \/ task.status = JOB_STATUS_CANCELLING
    \/ inp.cancel_at \in {CancelPoints[j] : j \in 1..(n - 1)}

\* The number of check_abort calls apply_snap has made.
Checked(h) == Cardinality(Places(h.events, "check_abort"))

\* What follows the last check_abort of an aborted apply: the deferred
\* deregister when the snapshot was registered, then handle_apply's Abort arm.
AbortTail(n) ==
    (IF n = 4 THEN <<"deregister">> ELSE <<>>)
        \o <<"cancel_apply_snapshot", "status_set", "send">>

\* C27: if the status is Cancelling when apply_snap reaches its n-th
\* check_abort (at entry, before the overlap cleanup, after it, before the
\* ingest), apply_snap stops there: no later step runs, nothing is ingested
\* and no region state is written; the status becomes Cancelled and
\* cancel_apply_snapshot is invoked once. If it is Cancelling at entry, the
\* pending-delete map and the engine are unchanged and no delete was called.
C27_CancelStopsApply ==
    \A task \in FrontsNow : \A inp \in AllApplyInputs :
        \A h \in {ApplyHandled(task, inp)} : \A n \in 1..4 :
            (Checked(h) >= n /\ CancellingAt(task, inp, n))
                => /\ Checked(h) <= n
                   /\ Checked(h) = n =>
                         /\ h.events[Len(h.events) - Len(AbortTail(n))] = "check_abort"
                         /\ SubSeq(h.events, Len(h.events) - Len(AbortTail(n)) + 1,
                                   Len(h.events)) = AbortTail(n)
                   /\ Places(h.events, "ingested") = {}
                   /\ Places(h.events, "region_state_normal") = {}
                   /\ h.engine = kv_engine
                   /\ h.region_state = region_local_state
                   /\ h.status = JOB_STATUS_CANCELLED
                   /\ Cardinality(Places(h.events, "cancel_apply_snapshot")) = 1
                   /\ n = 1 => /\ h.ranges = pending_delete_ranges
                               /\ h.calls = <<>>

\* A tick has handled an apply that ended Cancelled while the pending ranges
\* that overlap its region are still in the map, and the task of the other
\* region waits with the status Cancelling.
C27_Witness ==
    /\ last.op = "timeout"
    /\ Len(last.res) = 1
    /\ last.res[1].status = JOB_STATUS_CANCELLED
    /\ DOMAIN pending_delete_ranges # {}
    /\ kv_engine.latest_sequence_number = 0
    /\ \E task \in FrontsNow : task.status = JOB_STATUS_CANCELLING

\* The event happens once in the sequence, at the place returned (0 else).
Place(events, name) ==
    IF Cardinality(Places(events, name)) = 1
    THEN CHOOSE j \in Places(events, name) : TRUE
    ELSE 0

\* C28: an apply's status becomes Finished only after the snapshot was
\* ingested and one synced write batch has set the persisted state of the
\* region to Normal and deleted its snapshot_raft_state_key, and the message
\* is sent after that; so for every apply a step has handled with the status
\* Finished the persisted region state is Normal.
C28_FinishedAfterPersisted ==
    /\ \A task \in FrontsNow : \A inp \in AllApplyInputs :
          \A h \in {ApplyHandled(task, inp)} :
              h.status = JOB_STATUS_FINISHED
                  => /\ 0 < Place(h.events, "ingested")
                     /\ Place(h.events, "ingested") < Place(h.events, "write_batch")
                     /\ Place(h.events, "region_state_normal")
                           = Place(h.events, "write_batch") + 1
                     /\ Place(h.events, "snapshot_raft_state_deleted")
                           = Place(h.events, "write_batch") + 2
                     /\ Place(h.events, "synced") = Place(h.events, "write_batch") + 3
                     /\ Place(h.events, "synced") < Place(h.events, "status_set")
                     /\ Place(h.events, "status_set") < Place(h.events, "send")
                     /\ h.region_state[task.region_id] = "Normal"
                     /\ h.engine.latest_sequence_number
                           = kv_engine.latest_sequence_number + 1
    /\ \A j \in DOMAIN HandledBy(last) :
          HandledBy(last)[j].status = JOB_STATUS_FINISHED
              => /\ region_local_state[HandledBy(last)[j].region_id] = "Normal"
                 /\ HandledBy(last)[j].sent
                       = <<SnapshotApplied(HandledBy(last)[j].region_id,
                                           HandledBy(last)[j].peer_id, FALSE)>>

\* An Apply step has finished the apply of the task it received: the snapshot
\* is ingested and the region state, Applying when the task was scheduled, is
\* Normal.
C28_Witness ==
    /\ last.op = "apply"
    /\ Len(last.res) = 1
    /\ last.res[1].region_id = last.arg[1]
    /\ last.res[1].status = JOB_STATUS_FINISHED
    /\ region_local_state[last.arg[1]] = "Normal"
    /\ kv_engine.latest_sequence_number = 1

\* ---------------------------------------------------------------------------
\* The admin-command gateway of a peer: Peer::on_admin_command for BatchSplit.

\* An admin request: the command type of its admin payload ("None" when it
\* has none) and whether its header carries WriteBatchFlags::PRE_FLUSH_FINISHED
\* and WriteBatchFlags::TRANSFER_LEADER_PROPOSAL.
AdminReq(id, cmd_type, pre_flush_finished, transfer_leader_proposal) ==
    [id |-> id, cmd_type |-> cmd_type, pre_flush_finished |-> pre_flush_finished,
     transfer_leader_proposal |-> transfer_leader_proposal]

\* A BatchSplit request: the client's request and whether its header carries
\* WriteBatchFlags::PRE_FLUSH_FINISHED.
SplitReq(id, pre_flush_finished) == AdminReq(id, "BatchSplit", pre_flush_finished, FALSE)

\* The peers of the region: this peer, a voter, a witness voter and a learner.
SelfPeer == [id |-> 1, role |-> "Voter", is_witness |-> FALSE]

RegionPeers ==
    {SelfPeer, [id |-> 2, role |-> "Voter", is_witness |-> FALSE],
     [id |-> 3, role |-> "Voter", is_witness |-> TRUE],
     [id |-> 4, role |-> "Learner", is_witness |-> FALSE]}

\* The peers that are told to flush their memtables.
FlushTargets == {p \in RegionPeers : ~(p = SelfPeer \/ p.role # "Voter" \/ p.is_witness)}

\* The checks that reject an admin request before its command type is looked
\* at; validate_batch_split is the last of them for a BatchSplit.
Rejections ==
    {"none", "not_serving", "pre_propose", "validate_command", "not_applied_to_current_term",
     "conflict", "merging", "validate_batch_split"}

\* The fields of the peer and of its context that on_admin_command changes.
Gateway(being_flushed, scheduled, msgs, props, asserted) ==
    [tablet_being_flushed |-> being_flushed, flush_tasks |-> scheduled,
     flush_memtable_msgs |-> msgs, proposed |-> props, panicked |-> asserted]

\* on_admin_command that proposes a BatchSplit whatever its flags.
on_admin_command_unflagged(g, req, reject, has_mailbox, is_shutdown, schedule_ok) ==
    IF reject # "none" THEN g
    ELSE [g EXCEPT !.tablet_being_flushed = FALSE, !.proposed = Append(@, req.id)]

\* Peer::on_admin_command for a BatchSplit request: a rejected request changes
\* nothing; a request without PRE_FLUSH_FINISHED returns when a flush is under
\* way, else sets the latch, schedules TabletTask::Flush with the callback
\* that holds the request and sends MsgFlushMemtable to the other voters; a
\* request with the flag clears the latch and is proposed.
on_admin_command(g, req, reject, has_mailbox, is_shutdown, schedule_ok) ==
    IF reject # "none" THEN g
    ELSE IF ~req.pre_flush_finished
    THEN IF g.tablet_being_flushed THEN g
         ELSE IF ~has_mailbox
         THEN [g EXCEPT !.tablet_being_flushed = TRUE, !.panicked = ~is_shutdown]
         ELSE [g EXCEPT !.tablet_being_flushed = TRUE,
                        !.flush_tasks = IF schedule_ok THEN @ \cup {req.id} ELSE @,
                        !.flush_memtable_msgs = @ \cup {<<req.id, p.id>> : p \in FlushTargets}]
    ELSE [g EXCEPT !.tablet_being_flushed = FALSE, !.proposed = Append(@, req.id)]

\* The gateway of the peer as a handler finds it.
ThisGateway ==
    Gateway(tablet_being_flushed, flush_tasks, flush_memtable_msgs, proposed, FALSE)

\* A client (the split checker, PD) sends a BatchSplit request to the peer;
\* its header does not carry PRE_FLUSH_FINISHED.
SendSplit ==
    /\ ~panicked
    /\ ~router_shutdown
    /\ next_req <= MaxReq
    /\ mailbox' = Append(mailbox, SplitReq(next_req, FALSE))
    /\ next_req' = next_req + 1
    /\ last' = Op("send_split", <<next_req>>)
    /\ UNCHANGED <<iter_vars, reply, mgr_vars, panicked, worker_vars, tablet_being_flushed,
                   flush_tasks, flush_finished, flush_memtable_msgs, proposed,
                   router_shutdown>>

\* The peer takes the next admin command of its mailbox and handles it.
\* router.mailbox(region_id) is None exactly when the router is shut down.
OnAdminCommand(reject, schedule_ok) ==
    /\ ~panicked
    /\ mailbox # <<>>
    /\ \E g \in {on_admin_command(ThisGateway, Head(mailbox), reject, ~router_shutdown,
                                  router_shutdown, schedule_ok)} :
          /\ tablet_being_flushed' = g.tablet_being_flushed
          /\ flush_tasks' = g.flush_tasks
          /\ flush_memtable_msgs' = g.flush_memtable_msgs
          /\ proposed' = g.proposed
          /\ panicked' = g.panicked
    /\ mailbox' = Tail(mailbox)
    /\ last' = Op("admin_command", <<Head(mailbox), reject, schedule_ok>>)
    /\ UNCHANGED <<iter_vars, reply, mgr_vars, worker_vars, flush_finished, router_shutdown,
                   next_req>>

\* The tablet worker has flushed the memtables and runs on_flush_finish: the
\* request gets the flag PRE_FLUSH_FINISHED and is sent to the mailbox of the
\* peer; a failed try_send is logged.
FlushFinish(id, send_ok) ==
    /\ ~panicked
    /\ id \in flush_tasks
    /\ flush_tasks' = flush_tasks \ {id}
    /\ flush_finished' = flush_finished \cup {id}
    /\ mailbox' = IF send_ok /\ ~router_shutdown
                  THEN Append(mailbox, SplitReq(id, TRUE))
                  ELSE mailbox
    /\ last' = Op("flush_finish", <<id, send_ok>>)
    /\ UNCHANGED <<iter_vars, reply, mgr_vars, panicked, worker_vars, tablet_being_flushed,
                   flush_memtable_msgs, proposed, router_shutdown, next_req>>

\* The node shuts down: the router is closed and its mailboxes are cleared,
\* while the peer may still handle what it has received.
RouterShutdown ==
    /\ ~panicked
    /\ ~router_shutdown
    /\ router_shutdown' = TRUE
    /\ last' = Op("router_shutdown", <<>>)
    /\ UNCHANGED <<iter_vars, reply, mgr_vars, panicked, worker_vars, tablet_being_flushed,
                   mailbox, flush_tasks, flush_finished, flush_memtable_msgs, proposed,
                   next_req>>

NextAdmin ==
    \/ SendSplit
    \/ \E reject \in Rejections, schedule_ok \in BOOLEAN : OnAdminCommand(reject, schedule_ok)
    \/ \E id \in 1..MaxReq, send_ok \in BOOLEAN : FlushFinish(id, send_ok)
    \/ RouterShutdown

SpecAdmin == Init /\ [][NextAdmin]_vars

\* C29: a BatchSplit request is proposed only in a call that handles it with
\* the flag PRE_FLUSH_FINISHED, and only the callback of a finished flush
\* sets the flag; so every proposed batch split follows a finished memtable
\* flush that was scheduled for that request, and a call that handles a
\* request without the flag proposes nothing.
C29_SplitProposedAfterFlush ==
    /\ [](\A j \in DOMAIN mailbox :
             mailbox[j].pre_flush_finished => mailbox[j].id \in flush_finished)
    /\ [](\A j \in DOMAIN proposed : proposed[j] \in flush_finished \ flush_tasks)
    /\ [][proposed' # proposed
             => /\ mailbox # <<>>
                /\ Head(mailbox).pre_flush_finished
                /\ proposed' = Append(proposed, Head(mailbox).id)]_vars

\* The peer has proposed a batch split that came back from the callback of
\* its flush, after a request without the flag was handled.
C29_Witness ==
    /\ last.op = "admin_command"
    /\ last.arg[1].pre_flush_finished
    /\ proposed # <<>>
    /\ proposed[Len(proposed)] = last.arg[1].id
    /\ flush_memtable_msgs # {}

\* The step handles a BatchSplit request without the flag while the latch is
\* set.
GatedStep ==
    /\ tablet_being_flushed
    /\ last'.op = "admin_command"
    /\ ~last'.arg[1].pre_flush_finished

\* The step schedules a flush task.
SchedulesFlush == flush_tasks' \ flush_tasks # {}

\* C30: at most one pre-split flush is in flight per peer; while
\* tablet_being_flushed is set, a BatchSplit request without the flag
\* schedules no flush task and sends no FlushMemtable message; the latch is
\* set exactly in the steps that schedule a flush, and cleared exactly in the
\* steps in which a flagged BatchSplit reaches the propose step.
C30_LatchSetWithFlush ==
    /\ [](Cardinality(flush_tasks) <= 1)
    /\ [][GatedStep => /\ flush_tasks' = flush_tasks
                       /\ flush_memtable_msgs' = flush_memtable_msgs]_vars
    /\ [][(~tablet_being_flushed /\ tablet_being_flushed') <=> SchedulesFlush]_vars
    /\ [][(tablet_being_flushed /\ ~tablet_being_flushed') <=> proposed' # proposed]_vars

\* The sets of snapshot column families that can report an ingest slowdown.
SlowSets == SUBSET Range(SNAPSHOT_CFS)

\* A sweep of the worker that runs while the store is offlined or a non-plain
\* snapshot CF is slow deletes nothing, keeps the map and does not fail,
\* whatever the engine would answer.
IdleSweeps ==
    \A offlined \in BOOLEAN : \A slow \in SlowSets : \A fail \in Failures :
        (offlined \/ NonPlainSlow(slow))
            => \A c \in {clean_stale_ranges(pending_delete_ranges, kv_engine, offlined,
                                            ingest_maybe_stall(slow), use_delete_range,
                                            fail)} :
                  /\ c.calls = <<>>
                  /\ c.ranges = pending_delete_ranges
                  /\ ~c.panicked

\* Task::Destroy of the range while a non-plain CF is slow: the registration
\* and the sweep that follows it.
StalledDestroy(region_id, r, slow) ==
    With(insert_pending_delete_range(pending_delete_ranges, kv_engine, region_id, r[1],
                                     r[2], "none"),
         LAMBDA i :
            With(clean_stale_ranges(i.ranges, kv_engine, FALSE, ingest_maybe_stall(slow),
                                    use_delete_range, "none"),
                 LAMBDA c : [ranges |-> c.ranges, registered |-> i.ranges,
                             overlap_calls |-> i.calls, sweep_calls |-> c.calls]))

\* An entry of the map covers the range.
Covers(ranges, r) ==
    \E k \in DOMAIN ranges : BytesLeq(k, r[1]) /\ BytesLeq(r[2], ranges[k].end_key)

\* The ranges over which the calls delete.
Deleted(calls) == UNION {Range(calls[j].ranges) : j \in DOMAIN calls}

\* C32 as stated: a stale sweep that runs while the store is offlined or a
\* non-plain snapshot CF is slow deletes nothing and leaves the map unchanged;
\* so a Destroy handled during a write stall deletes nothing in a range that
\* is registered, the one it registers and the ones registered before.
C32_StalledDestroyDeletesNothing ==
    /\ IdleSweeps
    /\ \A region_id \in WRegionIds : \A r \in WRanges :
          \A slow \in {x \in SlowSets : NonPlainSlow(x)} :
              \A d \in {StalledDestroy(region_id, r, slow)} :
                  /\ Covers(d.ranges, r)
                  /\ \A x \in Deleted(d.overlap_calls \o d.sweep_calls) :
                        \A k \in DOMAIN pending_delete_ranges :
                            ~Intersects(x, EntryRange(pending_delete_ranges, k))

\* C32, amended: a stale sweep that runs while the store is offlined or a
\* non-plain snapshot CF is slow deletes nothing and leaves the map unchanged;
\* a Destroy handled during a write stall leaves its range registered and its
\* sweep deletes nothing; the only deletes of such a Destroy are the file
\* deletes of its overlap cleanup, over entries registered before that the
\* new range overlaps and that no snapshot can read.
C32_StalledSweepDeletesNothing ==
    /\ IdleSweeps
    /\ \A region_id \in WRegionIds : \A r \in WRanges :
          \A slow \in {x \in SlowSets : NonPlainSlow(x)} :
              \A d \in {StalledDestroy(region_id, r, slow)} :
                  /\ Covers(d.ranges, r)
                  /\ d.ranges = d.registered
                  /\ d.sweep_calls = <<>>
                  /\ \A j \in DOMAIN d.overlap_calls :
                        /\ d.overlap_calls[j].strategy.name = "DeleteFiles"
                        /\ \A x \in Range(d.overlap_calls[j].ranges) :
                              /\ UnreadEntry(pending_delete_ranges, kv_engine, x)
                              /\ Intersects(x, r)

\* A Destroy was handled during a stall: its entry is in the map although no
\* snapshot can read it, and a sweep without stall would delete it.
C32_Witness ==
    /\ last.op = "destroy"
    /\ ~panicked
    /\ Covers(pending_delete_ranges, <<last.arg[2], last.arg[3]>>)
    /\ kv_engine.snapshots = {}
    /\ \E x \in Deleted(SweepCalls) : Intersects(x, <<last.arg[2], last.arg[3]>>)

\* ---------------------------------------------------------------------------
\* Everything one apply of a region with the range can meet.
ApplyInputsOf(r) ==
    {ApplyInput(r, cancel_at, fault, fail) :
        cancel_at \in Range(CancelPoints) \cup {"never"}, fault \in ApplyFaults,
        fail \in {"none", "overlap_files", "write"}}

\* The apply has reached Snapshot::apply.
ReachesIngestion(h) == "apply" \in Range(h.events)

\* The entries of the map that intersect the range.
EntriesOver(ranges, r) == {k \in DOMAIN ranges : Intersects(EntryRange(ranges, k), r)}

\* The map is the first one without some of its entries.
Remainder(ranges, of) ==
    /\ DOMAIN ranges \subseteq DOMAIN of
    /\ \A k \in DOMAIN ranges : ranges[k] = of[k]

\* The sweeps that can run on the map the apply has left, whatever snapshots
\* the engine holds by then.
SweepsAfter(h) ==
    {clean_stale_ranges(h.ranges, [h.engine EXCEPT !.snapshots = held], FALSE, FALSE,
                        use_delete_range, "none").calls :
        held \in {{}, h.engine.snapshots}}

\* C35: when apply_snap reaches the ingestion of a snapshot of a region with
\* range [s, e), the pending-delete map has no entry intersecting [s, e): the
\* overlap cleanup has drained them and nothing is inserted, so the map is
\* what it was without those entries, and no sweep over it deletes in [s, e).
C35_NoEntryOverIngested ==
    \A task \in FrontsNow : \A r \in WRanges : \A inp \in ApplyInputsOf(r) :
        \A h \in {ApplyHandled(task, inp)} :
            ReachesIngestion(h)
                => /\ EntriesOver(h.ranges, r) = {}
                   /\ Remainder(h.ranges, pending_delete_ranges)
                   /\ DOMAIN pending_delete_ranges \ DOMAIN h.ranges
                         = EntriesOver(pending_delete_ranges, r)
                   /\ \A calls \in SweepsAfter(h) : \A x \in Deleted(calls) :
                         ~Intersects(x, r)

\* Destroy tasks have registered two ranges, one that the region of the
\* snapshot overlaps and one that it does not; the apply reaches its ingestion
\* and has drained the first only.
C35_Witness ==
    /\ last.op = "destroy"
    /\ \E task \in FrontsNow : \E r \in WRanges :
          \E h \in {ApplyHandled(task, ApplyInput(r, "never", "none", "none"))} :
              /\ EntriesOver(pending_delete_ranges, r) # {}
              /\ ReachesIngestion(h)
              /\ h.status = JOB_STATUS_FINISHED
              /\ DOMAIN h.ranges # {}

\* ---------------------------------------------------------------------------
\* The overlap cleanup of a registration and the registration itself, for a
\* Destroy of the range in this state.
Registration(region_id, r, fail) ==
    [cleanup |-> clean_overlap_ranges_roughly(pending_delete_ranges, kv_engine, r[1], r[2],
                                              fail),
     inserted |-> insert_pending_delete_range(pending_delete_ranges, kv_engine, region_id,
                                              r[1], r[2], fail)]

\* C36: the overlap panic of PendingDeleteRanges::insert is not reachable
\* from the region worker: after any Destroy tasks, Apply tasks and sweeps,
\* for every range start_key < end_key, the range that
\* insert_pending_delete_range inserts (the requested one widened to the union
\* with the drained entries) intersects no entry left in the map, so the
\* registration panics only when the file delete of the overlap cleanup fails,
\* and the widened range is then in the map.
C36_InsertNeverOverlaps ==
    \A region_id \in WRegionIds : \A r \in WRanges : \A fail \in Failures :
        \A g \in {Registration(region_id, r, fail)} :
            /\ EntriesOver(g.cleanup.ranges, <<g.cleanup.start_key, g.cleanup.end_key>>) = {}
            /\ g.inserted.panicked = g.cleanup.panicked
            /\ ~g.cleanup.panicked
                  => /\ g.cleanup.start_key \in DOMAIN g.inserted.ranges
                     /\ g.inserted.ranges[g.cleanup.start_key].end_key = g.cleanup.end_key
                     /\ Disjoint(g.inserted.ranges)

\* A Destroy has registered a range wider than the one it asked for, next to
\* an entry that it left in the map.
C36_Witness ==
    /\ last.op = "destroy"
    /\ ~panicked
    /\ \E k \in DOMAIN pending_delete_ranges :
          /\ BytesLess(k, last.arg[2])
          /\ BytesLeq(last.arg[3], pending_delete_ranges[k].end_key)
          /\ pending_delete_ranges[k].region_id = last.arg[1]
          /\ DOMAIN pending_delete_ranges # {k}

\* ---------------------------------------------------------------------------
\* apply_snap of the worker for the task and what it meets.
ApplySnapped(task, inp) ==
    apply_snap(pending_delete_ranges, kv_engine, region_local_state, task, task.status,
               inp, use_delete_range)

\* C37: the assertion of handle_apply that the status it replaces with
\* Cancelled was Cancelling never fails, wherever a cancel that moves the
\* status from Pending or Running to Cancelling lands: whenever apply_snap
\* returns Abort the status is Cancelling at the swap, the worker does not
\* panic, and the status ends Cancelled with SnapshotApplied sent.
C37_AbortSwapsCancelling ==
    \A task \in FrontsNow : \A inp \in AllApplyInputs :
        \A o \in {ApplySnapped(task, inp)} : \A h \in {ApplyHandled(task, inp)} :
            /\ h.panicked = (o.result = "Panic")
            /\ o.result = "Abort"
                  => /\ status_at_swap(task, inp) = JOB_STATUS_CANCELLING
                     /\ h.status = JOB_STATUS_CANCELLED
                     /\ h.sent = <<SnapshotApplied(task.region_id, task.peer_id, FALSE)>>

\* A task that was received with the status Pending has been handled at once
\* and ended Cancelled: the cancel landed while apply_snap ran, and the worker
\* has not panicked.
C37_Witness ==
    /\ last.op = "apply"
    /\ ~panicked
    /\ Len(last.res) = 1
    /\ last.res[1].region_id = last.arg[1]
    /\ last.res[1].status = JOB_STATUS_CANCELLED

\* ---------------------------------------------------------------------------
\* The same apply without the cancel.
Uncancelled(inp) == [inp EXCEPT !.cancel_at = "never"]

\* C38: a cancel that sets the status to Cancelling after the apply has
\* passed its last abort check does not take effect: the apply goes on as
\* without the cancel, and when nothing fails it completes, the region state is
\* written and the final status is Finished in place of the Cancelling that
\* the swap replaces; so the final status is Cancelled only if the apply
\* stopped before it wrote the region state.
C38_LateCancelIgnored ==
    \A task \in FrontsNow : \A inp \in AllApplyInputs :
        \A h \in {ApplyHandled(task, inp)} :
            /\ (inp.cancel_at = "late" /\ task.status # JOB_STATUS_CANCELLING)
                  => /\ h.replaced \in {JOB_STATUS_CANCELLING, "None"}
                     /\ [h EXCEPT !.replaced = "None"]
                           = [ApplyHandled(task, Uncancelled(inp)) EXCEPT !.replaced = "None"]
                     /\ (inp.fault = "none" /\ inp.fail = "none")
                           => /\ h.status = JOB_STATUS_FINISHED
                              /\ h.replaced = JOB_STATUS_CANCELLING
                              /\ h.region_state[task.region_id] = "Normal"
                              /\ Places(h.events, "region_state_normal") # {}
            /\ h.status = JOB_STATUS_CANCELLED
                  => /\ Places(h.events, "region_state_normal") = {}
                     /\ h.region_state = region_local_state

\* An apply has ended Finished with the region state Normal although the
\* status that the swap replaced was Cancelling.
C38_Witness ==
    /\ last.op = "apply"
    /\ Len(last.res) = 1
    /\ last.res[1].replaced = JOB_STATUS_CANCELLING
    /\ last.res[1].status = JOB_STATUS_FINISHED
    /\ region_local_state[last.res[1].region_id] = "Normal"

\* ---------------------------------------------------------------------------
\* Peer::on_admin_command for every command type.

\* The command types of AdminCmdType that on_admin_command names, and
\* ComputeHash for those it does not name.
AdminCmdTypes ==
    {"ChangePeer", "Split", "BatchSplit", "TransferLeader", "CompactLog", "UpdateGcPeer",
     "PrepareMerge", "CommitMerge", "RollbackMerge", "ComputeHash"}

\* apply::is_conf_change_cmd.
is_conf_change_cmd(req) == req.cmd_type = "ChangePeer"

\* What the peer and its context answer while one request is handled; each
\* field is TRUE when the call of that name succeeds or returns true.
AdminEnvs ==
    [serving : BOOLEAN, pre_propose : BOOLEAN, validate_command : BOOLEAN,
     applied_to_current_term : BOOLEAN, check_conflict : BOOLEAN,
     has_pending_prepare_merge : BOOLEAN, is_merging : BOOLEAN,
     validate_batch_split : BOOLEAN, schedule : BOOLEAN, propose : BOOLEAN]

\* rejection without the check of the applied term.
rejection_any_term(req, env) ==
    IF ~env.serving THEN "not_serving"
    ELSE IF req.cmd_type = "None" THEN "no_admin_request"
    ELSE IF ~env.pre_propose THEN "pre_propose"
    ELSE IF ~env.validate_command THEN "validate_command"
    ELSE IF env.check_conflict THEN "conflict"
    ELSE IF \/ env.has_pending_prepare_merge /\ req.cmd_type # "PrepareMerge"
            \/ env.is_merging /\ req.cmd_type # "RollbackMerge"
    THEN "merging"
    ELSE "none"

\* The first check of on_admin_command that the request fails, "none" when
\* it passes them all.
rejection(req, env) ==
    IF ~env.serving THEN "not_serving"
    ELSE IF req.cmd_type = "None" THEN "no_admin_request"
    ELSE IF ~env.pre_propose THEN "pre_propose"
    ELSE IF ~env.validate_command THEN "validate_command"
    ELSE IF /\ ~env.applied_to_current_term
            /\ ~(req.cmd_type = "TransferLeader" /\ ~req.transfer_leader_proposal)
    THEN "not_applied_to_current_term"
    ELSE IF env.check_conflict THEN "conflict"
    ELSE IF \/ env.has_pending_prepare_merge /\ req.cmd_type # "PrepareMerge"
            \/ env.is_merging /\ req.cmd_type # "RollbackMerge"
    THEN "merging"
    ELSE "none"

\* What a call of on_admin_command leaves: the fields of the peer, the check
\* that rejected the request, and what was done with its channel, in order.
Routed(g, reject, channel) == [gateway |-> g, reject |-> reject, channel |-> channel]

\* A proposer has returned res; record_proposed_admin when it is Ok, then
\* post_propose_command(ctx, res, vec![ch], true).
propose_admin(g, req, env) ==
    Routed([g EXCEPT !.proposed = IF env.propose THEN Append(@, req.id) ELSE @], "none",
           <<"post_propose_command">>)

\* The BatchSplit arm: a request that fails validate_batch_split goes to
\* post_propose_command with the error; one without PRE_FLUSH_FINISHED returns
\* when the latch is set or the mailbox is gone, else its channel goes into
\* the callback of the flush task; one with the flag clears the latch and is
\* proposed.
batch_split(g, req, env, is_shutdown) ==
    IF ~env.validate_batch_split
    THEN Routed(g, "validate_batch_split", <<"post_propose_command">>)
    ELSE With(on_admin_command(g, req, "none", ~is_shutdown, is_shutdown, env.schedule),
              LAMBDA n :
                 IF req.pre_flush_finished
                 THEN Routed([n EXCEPT !.proposed = IF env.propose THEN @ ELSE g.proposed],
                             "none", <<"post_propose_command">>)
                 ELSE Routed(n, "none",
                             IF g.tablet_being_flushed \/ is_shutdown
                             THEN <<>> ELSE <<"on_flush_finish">>))

\* The command types after the checks: the proposer of each, the warmup of a
\* TransferLeader without TRANSFER_LEADER_PROPOSAL, unimplemented!() for the
\* types the match does not name.
route_admin(g, req, env, is_shutdown) ==
    IF is_conf_change_cmd(req) THEN propose_admin(g, req, env)
    ELSE IF req.cmd_type = "Split"
    THEN Routed(g, "none", <<"post_propose_command">>)
    ELSE IF req.cmd_type = "BatchSplit" THEN batch_split(g, req, env, is_shutdown)
    ELSE IF req.cmd_type = "TransferLeader" /\ ~req.transfer_leader_proposal
    THEN Routed(g, "none", <<"propose_transfer_leader">>)
    ELSE IF req.cmd_type \in {"TransferLeader", "CompactLog", "UpdateGcPeer", "PrepareMerge",
                              "CommitMerge"}
    THEN propose_admin(g, req, env)
    ELSE Routed([g EXCEPT !.panicked = TRUE], "none", <<>>)

\* Peer::on_admin_command: the checks in order, then the command type.
admin_command(g, req, env, is_shutdown) ==
    With(rejection(req, env),
         LAMBDA reject :
            IF reject = "not_serving" THEN Routed(g, reject, <<"notify_req_region_removed">>)
            ELSE IF reject = "conflict" THEN Routed(g, reject, <<"delay_channel">>)
            ELSE IF reject # "none" THEN Routed(g, reject, <<"report_error">>)
            ELSE route_admin(g, req, env, is_shutdown))

\* The requests a client sends: every command type, TransferLeader with and
\* without TRANSFER_LEADER_PROPOSAL, and a request without admin payload;
\* PRE_FLUSH_FINISHED is set by the callback of the flush only.
ClientReqs(id) ==
    {AdminReq(id, c, FALSE, FALSE) : c \in AdminCmdTypes \cup {"None"}}
        \cup {AdminReq(id, "TransferLeader", FALSE, TRUE)}

\* A client sends an admin request to the peer.
SendAdmin(req) ==
    /\ ~panicked
    /\ ~router_shutdown
    /\ next_req <= MaxAdminReq
    /\ req.id = next_req
    /\ mailbox' = Append(mailbox, req)
    /\ next_req' = next_req + 1
    /\ last' = Op("send_admin", <<req>>)
    /\ UNCHANGED <<iter_vars, reply, mgr_vars, panicked, worker_vars, tablet_being_flushed,
                   flush_tasks, flush_finished, flush_memtable_msgs, proposed,
                   router_shutdown>>

\* The peer takes the next admin command of its mailbox and handles it.
OnAdminRequest(env) ==
    /\ ~panicked
    /\ mailbox # <<>>
    /\ \E r \in {admin_command(ThisGateway, Head(mailbox), env, router_shutdown)} :
          /\ tablet_being_flushed' = r.gateway.tablet_being_flushed
          /\ flush_tasks' = r.gateway.flush_tasks
          /\ flush_memtable_msgs' = r.gateway.flush_memtable_msgs
          /\ proposed' = r.gateway.proposed
          /\ panicked' = r.gateway.panicked
          /\ last' = [Op("admin_request", <<Head(mailbox), r.reject>>)
                         EXCEPT !.res = r.channel]
    /\ mailbox' = Tail(mailbox)
    /\ UNCHANGED <<iter_vars, reply, mgr_vars, worker_vars, flush_finished, router_shutdown,
                   next_req>>

NextGateway ==
    \/ \E req \in ClientReqs(next_req) : SendAdmin(req)
    \/ \E env \in AdminEnvs : OnAdminRequest(env)
    \/ \E id \in 1..MaxAdminReq, send_ok \in BOOLEAN : FlushFinish(id, send_ok)
    \/ RouterShutdown

\* The peer with admin requests of every command type.
SpecGateway == Init /\ [][NextGateway]_vars

\* The validations of an admin request: the peer is serving, the request has
\* an admin payload, validate_command passes, the peer has applied to the
\* current term unless the request is a TransferLeader without
\* TRANSFER_LEADER_PROPOSAL, no proposal conflicts, and the peer is not in
\* merging mode for the command type.
Validated(req, env) ==
    /\ env.serving
    /\ req.cmd_type # "None"
    /\ env.validate_command
    /\ \/ env.applied_to_current_term
       \/ req.cmd_type = "TransferLeader" /\ ~req.transfer_leader_proposal
    /\ ~env.check_conflict
    /\ env.has_pending_prepare_merge => req.cmd_type = "PrepareMerge"
    /\ env.is_merging => req.cmd_type = "RollbackMerge"

\* on_admin_command of the peer for the next request of its mailbox.
AdminHandled(env) == admin_command(ThisGateway, Head(mailbox), env, router_shutdown)

\* C31: on_admin_command proposes nothing unless the request passes every
\* validation; a request that fails one gets an error on its channel, or its
\* channel is delayed behind the conflict when the conflict is the check it
\* fails first, and the proposals, the latch, the flush tasks and the
\* messages of the peer stay as they were.
C31_ProposesOnlyValidated ==
    /\ [](mailbox # <<>>
            => \A env \in AdminEnvs : \A r \in {AdminHandled(env)} :
                  /\ r.gateway.proposed # proposed => Validated(Head(mailbox), env)
                  /\ ~Validated(Head(mailbox), env)
                        => /\ r.gateway = ThisGateway
                           /\ r.reject # "none"
                           /\ r.channel = IF r.reject = "conflict" THEN <<"delay_channel">>
                                          ELSE IF r.reject = "not_serving"
                                          THEN <<"notify_req_region_removed">>
                                          ELSE <<"report_error">>)
    /\ [][(last'.op = "admin_request" /\ last'.arg[2] # "none")
             => /\ proposed' = proposed
                /\ tablet_being_flushed' = tablet_being_flushed
                /\ flush_tasks' = flush_tasks
                /\ flush_memtable_msgs' = flush_memtable_msgs
                /\ ~panicked']_vars

\* The peer has proposed a command and has then rejected a request with an
\* error because it was in merging mode; the proposal is still the only one.
C31_Witness ==
    /\ last.op = "admin_request"
    /\ last.arg[2] = "merging"
    /\ last.res = <<"report_error">>
    /\ Len(proposed) = 1
    /\ proposed[1] # last.arg[1].id

\* What on_admin_command can do with the channel of a request: report an
\* error on it, delay it behind a conflicting proposal, hand it to the
\* callback of the flush, run the transfer-leader warmup with it, or pass it
\* to post_propose_command with the result of the proposer.
ChannelOutcomes ==
    {"report_error", "notify_req_region_removed", "delay_channel", "on_flush_finish",
     "propose_transfer_leader", "post_propose_command"}

\* C40: no admin command is dropped silently: every request handed to
\* on_admin_command ends in exactly one of an error reported on its channel,
\* its channel delayed behind a conflict, its hand-over to the flush callback,
\* a transfer-leader warmup, or a proposal whose result is passed to
\* post_propose_command; also a BatchSplit request that arrives while
\* tablet_being_flushed is set, and every command type that passes the
\* merging-mode check.
C40_NoAdminCommandDropped ==
    mailbox # <<>>
        => \A env \in AdminEnvs : \A r \in {AdminHandled(env)} :
              /\ ~r.gateway.panicked
              /\ Len(r.channel) = 1
              /\ r.channel[1] \in ChannelOutcomes

\* ---------------------------------------------------------------------------
\* The peer handles the messages of its mailbox as long as there are some, and
\* the tablet worker runs the flush tasks scheduled with it.
SpecAdminLive ==
    /\ SpecAdmin
    /\ WF_vars(\E reject \in Rejections, schedule_ok \in BOOLEAN :
                  OnAdminCommand(reject, schedule_ok))
    /\ WF_vars(\E id \in 1..MaxReq, send_ok \in BOOLEAN : FlushFinish(id, send_ok))

\* C39: whenever a BatchSplit request has set tablet_being_flushed, the latch
\* is eventually cleared again, also when scheduling the flush task fails,
\* when the callback cannot re-enqueue the request, and when the re-enqueued
\* request is rejected before the propose step.
C39_LatchEventuallyCleared == tablet_being_flushed ~> ~tablet_being_flushed

\* ---------------------------------------------------------------------------
\* The rounds in which no ingested column family is slow and the engine can
\* apply a snapshot.
ClearRounds == {c \in ApplyRounds : ~ingest_maybe_stall(c.slow) /\ c.can_apply}

ClearChecks == {<<a, b>> : a \in ClearRounds, b \in ClearRounds}

\* The timer keeps firing, the write stall clears and can_apply_snapshot
\* returns true in the end: a tick that meets neither is not put off for ever.
SpecApplyLive ==
    /\ SpecApply
    /\ WF_vars(\E checks \in ClearChecks, stall \in BOOLEAN :
                  OnTimeout(checks, FALSE, stall, "none"))

\* The step has received the Apply task of the region.
Received(region_id) == last.op = "apply" /\ last.arg[1] = region_id

\* The step has handled the Apply task of the region: its status is Finished,
\* Cancelled or Failed and SnapshotApplied was sent.
HandledNow(region_id) ==
    /\ last.op \in {"apply", "timeout"}
    /\ \E j \in DOMAIN last.res :
          /\ last.res[j].region_id = region_id
          /\ last.res[j].status
                \in {JOB_STATUS_FINISHED, JOB_STATUS_CANCELLED, JOB_STATUS_FAILED}
          /\ Len(last.res[j].sent) = 1

\* C34: every Apply task received by the worker is eventually handled (its
\* status reaches Finished, Cancelled or Failed and SnapshotApplied is sent),
\* when the write stall clears, can_apply_snapshot returns true in the end and
\* the timer keeps firing; an apply deferred by a stall is picked up by a tick
\* and needs no new task.
C34_EveryApplyHandled ==
    \A region_id \in WRegionIds : Received(region_id) ~> HandledNow(region_id)

\* ---------------------------------------------------------------------------
\* The start keys of a backlog of one entry more than a sweep takes, above
\* the keys of the Destroy tasks.
BacklogKeys == {<<n>> : n \in 11..(11 + CLEANUP_MAX_REGION_COUNT)}

\* The pending-delete map after Destroy tasks of regions [n, n + 1) that were
\* handled during a write stall: every sweep was skipped.
Backlog ==
    [k \in BacklogKeys |-> [region_id |-> k[1], end_key |-> <<k[1] + 1>>, stale_sequence |-> 0]]

\* The worker starts with an empty map or with the backlog.
InitBacklog ==
    /\ InitRest
    /\ pending_delete_ranges \in {EmptyList, Backlog}
    /\ use_delete_range = FALSE

\* The ranges of the Destroy tasks: the second overlaps the first.
BacklogDestroys == {<<<<1>>, <<2>>>>, <<<<1>>, <<3>>>>}

\* A tick of the timer that runs the stale sweep while no write stall is
\* reported.
ClearSweep ==
    /\ clean_stale_tick + 1 >= clean_stale_ranges_tick
    /\ OnTimeout(<<>>, FALSE, FALSE, "none")

NextBacklog ==
    \/ \E r \in BacklogDestroys, stall \in BOOLEAN :
          RunDestroy(1, r[1], r[2], FALSE, stall, "none")
    \/ \E stall \in BOOLEAN : OnTimeout(<<>>, FALSE, stall, "none")
    \/ EngineWrite
    \/ EngineSnapshot
    \/ \E q \in 0..MaxEngineSeq : EngineRelease(q)

\* The store is not offlined and deletions succeed; every snapshot of the
\* engine is released in the end.
SpecBacklog ==
    /\ InitBacklog
    /\ [][NextBacklog]_vars
    /\ \A q \in 0..MaxEngineSeq : WF_vars(EngineRelease(q))

\* The timer keeps firing and the write stall clears: sweeps that find no
\* write stall run again and again.
SweepsKeepRunning == []<><<ClearSweep>>_vars

\* C33 as stated: every range registered by a Destroy task is eventually
\* deleted and its entry removed from the map, when every snapshot of the
\* engine is released in the end, the write stall clears, the store is not
\* offlined, deletions succeed and the timer keeps firing.
C33_RegisteredEventuallyDeleted ==
    SweepsKeepRunning
        => \A k \in {r[1] : r \in BacklogDestroys} :
              (k \in DOMAIN pending_delete_ranges) ~> (k \notin DOMAIN pending_delete_ranges)

\* A snapshot of the engine can read an entry of the map: its sequence number
\* is not above the stale_sequence of the entry.
Blocked ==
    \E k \in DOMAIN pending_delete_ranges :
        pending_delete_ranges[k].stale_sequence >= oldest_snapshot_sequence(kv_engine)

\* The keys of the entries that a sweep takes: the stale entries with the
\* smallest start keys, CLEANUP_MAX_REGION_COUNT at most.
RECURSIVE Smallest(_, _)
Smallest(S, n) ==
    IF S = {} \/ n = 0 THEN {}
    ELSE {MinKey(S)} \cup Smallest(S \ {MinKey(S)}, n - 1)

\* C33, amended: when sweeps that find no write stall keep running and from
\* some time on no snapshot of the engine can read an entry of the map, every
\* entry is eventually deleted and removed, the map being empty again and
\* again; a sweep that is not skipped removes the stale entries with the
\* smallest start keys, CLEANUP_MAX_REGION_COUNT at most, so a backlog of
\* more entries goes in several sweeps.
C33_UnreadEventuallySwept ==
    /\ [](\A c \in {clean_stale_ranges(pending_delete_ranges, kv_engine, FALSE, FALSE,
                                        use_delete_range, "none")} :
             DOMAIN pending_delete_ranges \ DOMAIN c.ranges
                = Smallest({k \in DOMAIN pending_delete_ranges :
                               pending_delete_ranges[k].stale_sequence
                                  < oldest_snapshot_sequence(kv_engine)},
                           CLEANUP_MAX_REGION_COUNT))
    /\ (SweepsKeepRunning /\ <>[]~Blocked) => []<>(DOMAIN pending_delete_ranges = {})

\* A tick has swept a backlog of more than CLEANUP_MAX_REGION_COUNT stale
\* entries: the entry with the largest start key is left for the next sweep.
C33_Witness ==
    /\ last.op = "timeout"
    /\ DOMAIN pending_delete_ranges = {<<11 + CLEANUP_MAX_REGION_COUNT>>}
    /\ ~Blocked
====
